---- MODULE Spec2Model ----
(***************************************************************************)
(* A model of the resilience layer of the AI job recommender:              *)
(*   - LLMManager.ask (src/src/helper.py): ordered provider fallback with  *)
(*     error classification, local retry and backoff, for sequential calls *)
(*     and for calls of several threads on one manager;                    *)
(*   - SkillGapAnalyzer (src/backend/src/skill_analyzer.py): per-job       *)
(*     analysis, JSON recovery from generated text, fallback records;      *)
(*   - ResumeProcessor.find_similar_jobs and _embed_text                   *)
(*     (src/backend/src/resume_processor.py): deduplicating top-k,         *)
(*     chunked embedding with retry on timeouts;                           *)
(*   - SkillGapAnalyzer.generate_overall_report: the aggregate report;     *)
(*   - the endpoints of src/backend/main.py and src/main.py over the       *)
(*     per-user dicts, and the rate limiters of the two middleware/auth.py.*)
(***************************************************************************)
EXTENDS Integers, Sequences, FiniteSets, TLC

(***************************************************************************)
(* Bounds of the model.                                                    *)
(***************************************************************************)
\* the longest provider list an LLMManager is built with
MaxProviders == 2
\* per_provider_retries is drawn from 0..MaxRetries
MaxRetries == 2
\* sequential ask requests served by one LLMManager
MaxRequests == 2
\* the longest list of matches the index returns for one query
MaxMatches == 5
\* top_k is drawn from 0..MaxTopK
MaxTopK == 4
\* the longest job list passed to analyze_resume_vs_jobs
MaxJobs == 3
\* the longest generated text enumerated character by character
MaxTextLen == 3
\* the threads calling ask on one LLMManager at the same time
MaxThreads == 2
\* the longest text passed to _embed_text
MaxEmbedLen == 4
\* chunk_size is drawn from 1..MaxChunkSize
MaxChunkSize == 3

VARIABLES
    \* ---- LLMManager (helper.py) ----
    nProviders,   \* len(self.providers), fixed at construction
    llms,         \* self._llms: the client cache, TRUE where a client is cached
    askPc,        \* position inside ask: idle | provider | invoke | returned | raised
    idx,          \* the for loop's provider index (1-based)
    attempt,      \* the while loop's attempt counter
    retries,      \* per_provider_retries of the running request
    lastExc,      \* last_exc
    askResult,    \* the text ask returned
    askRaised,    \* the exception ask raised
    events,       \* history: the create/invoke/sleep calls of the running request
    reqs,         \* history: requests started so far
    askHist,      \* history over all requests: the clients constructed per
                  \* provider, the providers whose construction failed, the
                  \* providers left on a fatal_auth or rate_limit error
    \* ---- ResumeProcessor.find_similar_jobs (resume_processor.py) ----
    indexIds,     \* the resume vector ids stored in the index
    findPc,       \* idle | returned | raised
    findArgs,     \* the arguments of the last call
    findQuery,    \* the filter and top_k of the query the call issued
    findMatches,  \* the matches the index returned
    findResult,   \* similar_jobs as returned
    findRaised,   \* the message of the exception the call raised ("": none)
    \* ---- SkillGapAnalyzer.analyze_resume_vs_jobs (skill_analyzer.py) ----
    anPc,         \* idle | loop | returned | raised
    anResume,     \* resume_info
    anJobs,       \* jobs
    anIdx,        \* the index of the job the for loop is at
    analyses,     \* analyses
    anOutcomes,   \* history: what ask_with_fallback did for each job so far
    anPrompts,    \* history: the job fields of the prompt sent for each job
    \* ---- one generated text through _analyze_single_job_match ----
    exPc,         \* idle | ready | done
    exContent,    \* the text the model generated
    exResponse,   \* what ask_with_fallback returned for it
    exResult,     \* what _analyze_single_job_match returned
    \* ---- ResumeProcessor._embed_text (resume_processor.py) ----
    emPc,         \* idle | chunk | returned | raised
    emText,       \* text_for_embedding
    emChunkSize,  \* chunk_size
    emChunks,     \* chunks
    emIdx,        \* the index of the chunk the for loop is at
    emAttempt,    \* the attempt number of the retrying call for that chunk
    emEmbs,       \* chunk_embs
    emResult,     \* the list _embed_text returned
    emRaised,     \* the exception _embed_text raised
    emCalls,      \* history: the embed_query calls, with their outcomes
    \* ---- SkillGapAnalyzer.generate_overall_report (skill_analyzer.py) ----
    rpPc,         \* idle | returned | raised
    rpAnalyses,   \* analyses
    rpReport,     \* the report returned
    \* ---- _classify_error (helper.py) ----
    clPc,         \* idle | done
    clExc,        \* exc
    clType,       \* the class returned
    \* ---- LLMManager.ask called from several threads (helper.py) ----
    coLlms,       \* self._llms: per provider the cached client, 0 for None
    coMade,       \* history: the clients create_llm has returned per provider
    coPc,         \* per thread: idle | check | create | store | read | invoke | done
    coIdx,        \* per thread: the for loop's provider index
    coNew,        \* per thread: the client create_llm returned, not yet stored
    coLlm,        \* per thread: the local llm
    coUsed,       \* history: the <<provider, client>> pairs invoked
    \* ---- the endpoints of backend/main.py and main.py ----
    session_storage,     \* backend/main.py: per user the session dict
    user_resumes,        \* backend/main.py: per user the resume history
    user_resume_storage, \* main.py: per user the resume data
    ssTasks,             \* per user: where the background task is
    ssLast,              \* history: the last request and its response
    ssDeleted,           \* history: users whose current resume was deleted
    ssServed,            \* the number of requests served
    \* ---- the rate limiters of the two middleware/auth.py ----
    rlApp,               \* the application the process runs (backend | root)
    rlMax,               \* max_requests of the RateLimiter, limit of rate_limit_check
    rlWindow,            \* the window in seconds
    rlRequests,          \* self.requests, rate_limit_store: the recorded call times
    rlNow,               \* time.time(), in seconds
    rlLast,              \* history: the last call and its decision
    rlAllowed            \* history: per identifier the times of the allowed calls

askVars == <<nProviders, llms, askPc, idx, attempt, retries, lastExc,
             askResult, askRaised, events, reqs, askHist>>

findVars == <<indexIds, findPc, findArgs, findQuery, findMatches, findResult, findRaised>>

anVars == <<anPc, anResume, anJobs, anIdx, analyses, anOutcomes, anPrompts>>

exVars == <<exPc, exContent, exResponse, exResult>>

emVars == <<emPc, emText, emChunkSize, emChunks, emIdx, emAttempt, emEmbs,
            emResult, emRaised, emCalls>>

rpVars == <<rpPc, rpAnalyses, rpReport>>

clVars == <<clPc, clExc, clType>>

coVars == <<coLlms, coMade, coPc, coIdx, coNew, coLlm, coUsed>>

ssVars == <<session_storage, user_resumes, user_resume_storage, ssTasks, ssLast,
            ssDeleted, ssServed>>

rlVars == <<rlApp, rlMax, rlWindow, rlRequests, rlNow, rlLast, rlAllowed>>

webVars == <<ssVars, rlVars>>

vars == <<askVars, findVars, anVars, exVars, emVars, rpVars, clVars, coVars, webVars>>

(***************************************************************************)
(* Exceptions.  An exception carries what _classify_error reads: a status  *)
(* attribute (0: none) and the keywords its lowercased message contains;   *)
(* blank says that str(exc) is the empty string.                           *)
(***************************************************************************)
Exc(c, s, w, b) == [cls |-> c, status |-> s, words |-> w, blank |-> b]

NoExc == Exc("None", 0, {}, TRUE)

\* the errors a provider's create_llm or invoke raises in this model
ProviderExcs ==
    { Exc("APIStatusError", 401, {}, FALSE),
      Exc("APIStatusError", 429, {"rate limit"}, FALSE),
      Exc("APITimeoutError", 0, {"timeout"}, FALSE) }

AuthWords == {"unauthorized", "invalid", "expired"}
RateWords == {"rate limit", "quota", "quota exceeded"}
TransientWords == {"timeout", "connection", "failed to connect"}

\* _classify_error testing the rate-limit signals before the auth signals
ClassifyErrorM2(e) ==
    IF e.status = 429 \/ e.words \cap RateWords # {}
    THEN "rate_limit"
    ELSE IF e.status \in {401, 403} \/ e.words \cap AuthWords # {}
    THEN "fatal_auth"
    ELSE "retryable"

\* _classify_error without its optimistic default
ClassifyErrorM1(e) ==
    IF e.status \in {401, 403} \/ e.words \cap AuthWords # {}
    THEN "fatal_auth"
    ELSE IF e.status = 429 \/ e.words \cap RateWords # {}
    THEN "rate_limit"
    ELSE IF (e.status >= 500 /\ e.status < 600) \/ e.words \cap TransientWords # {}
    THEN "retryable"
    ELSE "fatal_auth"

\* helper.py _classify_error
ClassifyError(e) ==
    IF e.status \in {401, 403} \/ e.words \cap AuthWords # {}
    THEN "fatal_auth"
    ELSE IF e.status = 429 \/ e.words \cap RateWords # {}
    THEN "rate_limit"
    ELSE IF (e.status >= 500 /\ e.status < 600) \/ e.words \cap TransientWords # {}
    THEN "retryable"
    ELSE "retryable"

(***************************************************************************)
(* Provider responses and _extract_text_from_llm_response.  A raw response *)
(* has one of the shapes the function tells apart and carries one text;    *)
(* an object of no known shape is rendered by str(), which for a chat      *)
(* message is the text wrapped as content='...'.                           *)
(***************************************************************************)
RawShapes == {"none", "str", "generations", "dict_choices", "obj_choices", "message"}
RawTexts == {"t1", "t2"}
Raw(s, t) == [shape |-> s, text |-> t]
NoRaw == Raw("none", "")
RawResponses == {Raw(s, t) : s \in RawShapes \ {"none"}, t \in RawTexts} \cup {NoRaw}

Text(t, w) == [text |-> t, wrapped |-> w]
NoText == Text("", FALSE)

ExtractTextFromLlmResponse(raw) ==
    IF raw.shape = "none" THEN Text("", FALSE)
    ELSE IF raw.shape \in {"str", "generations", "dict_choices", "obj_choices"}
    THEN Text(raw.text, FALSE)
    ELSE Text(raw.text, TRUE)

(***************************************************************************)
(* LLMManager.ask, one action per step of its loops.                       *)
(***************************************************************************)
Event(e, p, ok, x, r, n) ==
    [ev |-> e, p |-> p, ok |-> ok, exc |-> x, raw |-> r, n |-> n]

\* backoff_factor's default
BackoffFactor == 1

RECURSIVE Pow2(_)
Pow2(n) == IF n <= 0 THEN 1 ELSE 2 * Pow2(n - 1)

\* sleep_for = backoff_factor * (2 ** (attempt - 1))
SleepForM1(a) == BackoffFactor * Pow2(a)
SleepFor(a) == BackoffFactor * Pow2(a - 1)

\* typ in ("fatal_auth", "rate_limit"): leave the provider without retrying
SwitchesProviderM1(typ) == typ = "fatal_auth"
SwitchesProvider(typ) == typ \in {"fatal_auth", "rate_limit"}

\* self._llms[idx] = provider.create_llm()
StoreClientM1(cache, i) == cache
StoreClient(cache, i) == [cache EXCEPT ![i] = TRUE]

\* attempt > per_provider_retries: leave the provider
RetriesExceededM2(a, r) == a > r + 1
RetriesExceededM1(a, r) == a >= r
RetriesExceeded(a, r) == a > r

\* for idx, provider in enumerate(self.providers): the list as constructed,
\* whatever the earlier requests met
FirstProviderM1(hist) == IF 1 \in hist.abandoned THEN 2 ELSE 1
FirstProvider(hist) == 1

\* the for loop's next index after a provider is left
NextProviderM1(i) == i
NextProvider(i) == i + 1

\* raise last_exc
RaisedErrorM1(last, evs) ==
    IF \E k \in 1..Len(evs) : ~evs[k].ok THEN
        (LET k == CHOOSE j \in 1..Len(evs) :
                    ~evs[j].ok /\ \A i \in 1..(j - 1) : evs[i].ok
         IN evs[k].exc)
    ELSE last
RaisedError(last, evs) == last

\* the retrieval client is not in use
IdleFind ==
    /\ indexIds = {}
    /\ findPc = "idle"
    /\ findArgs = [resume_id |-> "", top_k |-> 0, query_id |-> "<None>"]
    /\ findQuery = [issued |-> FALSE, filter |-> <<>>, top_k |-> 0]
    /\ findMatches = <<>>
    /\ findResult = <<>>
    /\ findRaised = ""

\* LLMManager.__init__ with n providers: an empty cache, no request running
NewManager(n) ==
    /\ nProviders = n
    /\ llms = [i \in 1..n |-> FALSE]
    /\ askPc = "idle"
    /\ idx = 0
    /\ attempt = 0
    /\ retries = 0
    /\ lastExc = NoExc
    /\ askResult = NoText
    /\ askRaised = NoExc
    /\ events = <<>>
    /\ reqs = 0
    /\ askHist = [creates |-> [i \in 1..n |-> 0], createFailed |-> {}, abandoned |-> {}]

\* the analyzer is not in use
IdleAnalyze ==
    /\ anPc = "idle"
    /\ anResume = [extracted_skills |-> <<>>]
    /\ anJobs = <<>>
    /\ anIdx = 0
    /\ analyses = <<>>
    /\ anOutcomes = <<>>
    /\ anPrompts = <<>>

IdleExtract ==
    /\ exPc = "idle"
    /\ exContent = <<>>
    /\ exResponse = <<>>
    /\ exResult = [kind |-> "none", val |-> <<>>, reason |-> ""]

IdleEmbed ==
    /\ emPc = "idle"
    /\ emText = <<>>
    /\ emChunkSize = 0
    /\ emChunks = <<>>
    /\ emIdx = 0
    /\ emAttempt = 0
    /\ emEmbs = <<>>
    /\ emResult = <<>>
    /\ emRaised = ""
    /\ emCalls = <<>>

IdleReport ==
    /\ rpPc = "idle"
    /\ rpAnalyses = <<>>
    /\ rpReport = [error |-> ""]

IdleClassify ==
    /\ clPc = "idle"
    /\ clExc = NoExc
    /\ clType = ""

\* no request has been handled, no call has been made
\* no request is served
IdleSession ==
    /\ session_storage = <<>>
    /\ user_resumes = <<>>
    /\ user_resume_storage = <<>>
    /\ ssTasks = <<>>
    /\ ssLast = <<>>
    /\ ssDeleted = {}
    /\ ssServed = 0

\* no rate limiter is called
IdleRateLimiter ==
    /\ rlApp = ""
    /\ rlMax = 0
    /\ rlWindow = 0
    /\ rlRequests = <<>>
    /\ rlNow = 0
    /\ rlLast = <<>>
    /\ rlAllowed = <<>>

IdleWeb == IdleSession /\ IdleRateLimiter

\* no thread is in ask
IdleConcurrent ==
    /\ coLlms = <<>>
    /\ coMade = <<>>
    /\ coPc = <<>>
    /\ coIdx = <<>>
    /\ coNew = <<>>
    /\ coLlm = <<>>
    /\ coUsed = {}

\* the module's llm_manager: at least one provider
InitAsk ==
    /\ \E n \in 1..MaxProviders : NewManager(n)
    /\ IdleFind
    /\ IdleAnalyze
    /\ IdleExtract
    /\ IdleEmbed
    /\ IdleReport
    /\ IdleClassify
    /\ IdleWeb
    /\ IdleConcurrent

\* a call of ask: last_exc = None and the for loop starts at the first provider
AskStart(r) ==
    /\ UNCHANGED <<findVars, anVars, exVars, emVars, rpVars, clVars, coVars, webVars>>
    /\ askPc \in {"idle", "returned", "raised"}
    /\ reqs < MaxRequests
    /\ reqs' = reqs + 1
    /\ retries' = r
    /\ lastExc' = NoExc
    /\ idx' = FirstProvider(askHist)
    /\ attempt' = 0
    /\ askResult' = NoText
    /\ askRaised' = NoExc
    /\ events' = <<>>
    /\ askPc' = "provider"
    /\ UNCHANGED <<nProviders, llms, askHist>>

\* self._llms[idx] is not None: the cached client is used
UseCached ==
    /\ UNCHANGED <<findVars, anVars, exVars, emVars, rpVars, clVars, coVars, webVars>>
    /\ askPc = "provider"
    /\ idx <= nProviders
    /\ llms[idx]
    /\ attempt' = 0
    /\ askPc' = "invoke"
    /\ UNCHANGED <<nProviders, llms, idx, retries, lastExc, askResult, askRaised,
                   events, reqs, askHist>>

\* self._llms[idx] = provider.create_llm() returns a client
CreateOk ==
    /\ UNCHANGED <<findVars, anVars, exVars, emVars, rpVars, clVars, coVars, webVars>>
    /\ askPc = "provider"
    /\ idx <= nProviders
    /\ ~llms[idx]
    /\ llms' = StoreClient(llms, idx)
    /\ askHist' = [askHist EXCEPT !.creates[idx] = @ + 1]
    /\ events' = Append(events, Event("create", idx, TRUE, NoExc, NoRaw, 0))
    /\ attempt' = 0
    /\ askPc' = "invoke"
    /\ UNCHANGED <<nProviders, idx, retries, lastExc, askResult, askRaised, reqs>>

\* provider.create_llm() raises: last_exc = e; continue
CreateFail(e) ==
    /\ UNCHANGED <<findVars, anVars, exVars, emVars, rpVars, clVars, coVars, webVars>>
    /\ askPc = "provider"
    /\ idx <= nProviders
    /\ ~llms[idx]
    /\ events' = Append(events, Event("create", idx, FALSE, e, NoRaw, 0))
    /\ lastExc' = e
    /\ idx' = NextProvider(idx)
    /\ askHist' = [askHist EXCEPT !.createFailed = @ \cup {idx}]
    /\ UNCHANGED <<nProviders, llms, askPc, attempt, retries, askResult, askRaised,
                   reqs>>

\* provider.invoke returns: the text is extracted and returned
InvokeOk(raw) ==
    /\ UNCHANGED <<findVars, anVars, exVars, emVars, rpVars, clVars, coVars, webVars>>
    /\ askPc = "invoke"
    /\ attempt' = attempt + 1
    /\ events' = Append(events, Event("invoke", idx, TRUE, NoExc, raw, attempt + 1))
    /\ askResult' = ExtractTextFromLlmResponse(raw)
    /\ askPc' = "returned"
    /\ UNCHANGED <<nProviders, llms, idx, retries, lastExc, askRaised, reqs, askHist>>

\* provider.invoke raises: classify, then switch provider, give up or back off
InvokeFail(e) ==
    /\ UNCHANGED <<findVars, anVars, exVars, emVars, rpVars, clVars, coVars, webVars>>
    /\ askPc = "invoke"
    /\ attempt' = attempt + 1
    /\ lastExc' = e
    /\ LET inv == Event("invoke", idx, FALSE, e, NoRaw, attempt + 1)
           typ == ClassifyError(e)
       IN IF SwitchesProvider(typ) \/ RetriesExceeded(attempt + 1, retries)
          THEN /\ events' = Append(events, inv)
               /\ idx' = NextProvider(idx)
               /\ askPc' = "provider"
          ELSE /\ events' = events \o
                     <<inv, Event("sleep", idx, TRUE, NoExc, NoRaw, SleepFor(attempt + 1))>>
               /\ idx' = idx
               /\ askPc' = "invoke"
    /\ askHist' = IF SwitchesProvider(ClassifyError(e))
                  THEN [askHist EXCEPT !.abandoned = @ \cup {idx}]
                  ELSE askHist
    /\ UNCHANGED <<nProviders, llms, retries, askResult, askRaised, reqs>>

\* the for loop is over: raise last_exc
AskRaise ==
    /\ UNCHANGED <<findVars, anVars, exVars, emVars, rpVars, clVars, coVars, webVars>>
    /\ askPc = "provider"
    /\ idx > nProviders
    /\ askRaised' = RaisedError(lastExc, events)
    /\ askPc' = "raised"
    /\ UNCHANGED <<nProviders, llms, idx, attempt, retries, lastExc, askResult,
                   events, reqs, askHist>>

NextAsk ==
    \/ \E r \in 0..MaxRetries : AskStart(r)
    \/ UseCached
    \/ CreateOk
    \/ \E e \in ProviderExcs : CreateFail(e)
    \/ \E raw \in RawResponses : InvokeOk(raw)
    \/ \E e \in ProviderExcs : InvokeFail(e)
    \/ AskRaise

SpecAsk == InitAsk /\ [][NextAsk]_vars

\* a request that has started goes on: every construction and every call
\* returns or raises, and the interpreter runs the statements in between
AskProceeds ==
    \/ UseCached
    \/ CreateOk
    \/ \E e \in ProviderExcs : CreateFail(e)
    \/ \E raw \in RawResponses : InvokeOk(raw)
    \/ \E e \in ProviderExcs : InvokeFail(e)
    \/ AskRaise

SpecAskFair == SpecAsk /\ WF_vars(AskProceeds)

(***************************************************************************)
(* ResumeProcessor.find_similar_jobs.                                      *)
(***************************************************************************)
\* Python's None where a string is expected, and the truth value of a string
None == "<None>"
Truthy(v) == v # None /\ v # ""

\* dict.get(key) and dict.get(key, default)
Get(d, key) == IF key \in DOMAIN d THEN d[key] ELSE None
GetOr(d, key, default) == IF key \in DOMAIN d THEN d[key] ELSE default

\* a or b (or c), on strings
Or2(a, b) == IF Truthy(a) THEN a ELSE b
Or3(a, b, c) == Or2(a, Or2(b, c))

ResumeIds == {"resume_u1", "resume_u2"}
MatchIds == {"job_1", "job_2", "job_3", "job_4"}
\* query_id: absent, a batch, or the empty id search_jobs answers with when it
\* found no job
QueryIds == {None, "q1", ""}

\* the index keeps one vector, with one metadata, under an id: metadata as
\* store_jobs_in_pinecone writes it, and as an older writer did
MetadataOf(id) ==
    IF id \in {"job_1", "job_3"}
    THEN [type |-> "job", query_id |-> "q1", title |-> "Dev", company |-> "Acme",
          company_name |-> "Acme", location |-> "NYC", apply_link |-> "http://a",
          description |-> "python dev"]
    ELSE [type |-> "job", job_title |-> "Eng", company_name |-> "Beta",
          apply_url |-> "http://b"]

\* the matches of one query result: descending relevance, the score being
\* the rank from the end
IndexResults ==
    UNION { [1..n -> MatchIds] : n \in 0..MaxMatches }
MatchAt(r, k) == [id |-> r[k], score |-> Len(r) + 1 - k, metadata |-> MetadataOf(r[k])]
Matches(r) == [k \in 1..Len(r) |-> MatchAt(r, k)]

\* top_k = max(10, top_k * 2)
RequestedCandidatesFloor == 10
RequestedCandidates(top_k) ==
    IF top_k * 2 > RequestedCandidatesFloor THEN top_k * 2 ELSE RequestedCandidatesFloor

\* filter_dict
FilterDict(query_id) ==
    IF Truthy(query_id) THEN <<<<"type", "job">>, <<"query_id", query_id>>>>
    ELSE <<<<"type", "job">>>>

\* job_info, with the metadata keys reconciled
JobInfo(match) ==
    LET md == match.metadata
    IN [title |-> Or3(Get(md, "title"), Get(md, "job_title"), ""),
        company |-> Or3(Get(md, "company"), Get(md, "company_name"), ""),
        location |-> Or2(Get(md, "location"), ""),
        apply_link |-> Or2(Get(md, "apply_link"),
                           Or3(Get(md, "apply_url"), Get(md, "share_link"), "")),
        description |-> GetOr(md, "description", ""),
        similarity_score |-> match.score,
        job_id |-> match.id]

\* if len(similar_jobs) >= top_k: break
EnoughJobs(jobs, top_k) == Len(jobs) >= top_k

\* the loop over matches: skip seen ids, append, stop once top_k are collected
RECURSIVE CollectJobs(_, _, _, _, _)
CollectJobs(matches, k, seen, jobs, top_k) ==
    IF k > Len(matches) THEN jobs
    ELSE IF matches[k].id \in seen
    THEN CollectJobs(matches, k + 1, seen, jobs, top_k)
    ELSE LET added == Append(jobs, JobInfo(matches[k]))
         IN IF EnoughJobs(added, top_k) THEN added
            ELSE CollectJobs(matches, k + 1, seen \cup {matches[k].id}, added, top_k)

SimilarJobs(matches, top_k) == CollectJobs(matches, 1, {}, <<>>, top_k)

\* raise ValueError("Resume not found in index")
ResumeNotFound == "ValueError: Resume not found in index"

\* not (not vectors_data or resume_id not in vectors_data)
ResumeFoundM1(resume_id, ids) == TRUE
ResumeFound(resume_id, ids) == resume_id \in ids

InitFind ==
    /\ NewManager(1)
    /\ IdleAnalyze
    /\ IdleExtract
    /\ IdleEmbed
    /\ IdleReport
    /\ IdleClassify
    /\ IdleWeb
    /\ IdleConcurrent
    /\ indexIds \in SUBSET ResumeIds
    /\ findPc = "idle"
    /\ findArgs = [resume_id |-> "", top_k |-> 0, query_id |-> None]
    /\ findQuery = [issued |-> FALSE, filter |-> <<>>, top_k |-> 0]
    /\ findMatches = <<>>
    /\ findResult = <<>>
    /\ findRaised = ""

\* find_similar_jobs on a resume whose vector is stored: one query, then the
\* dedupe loop (the method keeps no state: a behaviour is one call)
FindSimilarJobs(resume_id, top_k, query_id, r) ==
    /\ findPc = "idle"
    /\ ResumeFound(resume_id, indexIds)
    /\ findArgs' = [resume_id |-> resume_id, top_k |-> top_k, query_id |-> query_id]
    /\ findQuery' = [issued |-> TRUE, filter |-> FilterDict(query_id),
                     top_k |-> RequestedCandidates(top_k)]
    /\ findMatches' = Matches(r)
    /\ findResult' = SimilarJobs(Matches(r), top_k)
    /\ findRaised' = ""
    /\ findPc' = "returned"
    /\ UNCHANGED indexIds
    /\ UNCHANGED <<askVars, anVars, exVars, emVars, rpVars, clVars, coVars, webVars>>

\* find_similar_jobs on a resume whose vector is not stored: the ValueError
\* "Resume not found in index" is re-raised before any query
FindResumeMissing(resume_id, top_k, query_id) ==
    /\ findPc = "idle"
    /\ ~ResumeFound(resume_id, indexIds)
    /\ findArgs' = [resume_id |-> resume_id, top_k |-> top_k, query_id |-> query_id]
    /\ findQuery' = [issued |-> FALSE, filter |-> <<>>, top_k |-> 0]
    /\ findMatches' = <<>>
    /\ findResult' = <<>>
    /\ findRaised' = ResumeNotFound
    /\ findPc' = "raised"
    /\ UNCHANGED indexIds
    /\ UNCHANGED <<askVars, anVars, exVars, emVars, rpVars, clVars, coVars, webVars>>

NextFind ==
    \/ /\ findPc = "idle"
       /\ \E resume_id \in ResumeIds, top_k \in 0..MaxTopK, query_id \in QueryIds,
             r \in IndexResults : FindSimilarJobs(resume_id, top_k, query_id, r)
    \/ /\ findPc = "idle"
       /\ \E resume_id \in ResumeIds, top_k \in 0..MaxTopK, query_id \in QueryIds :
             FindResumeMissing(resume_id, top_k, query_id)

SpecFind == InitFind /\ [][NextFind]_vars

\* the ids of matches in order, every later occurrence of an id left out
FirstOccurrences(matches) ==
    {k \in 1..Len(matches) : \A j \in 1..(k - 1) : matches[j].id # matches[k].id}
UniqueCount(matches) == Cardinality(FirstOccurrences(matches))
\* the position in matches of the n-th first occurrence
NthUnique(matches, n) ==
    CHOOSE k \in FirstOccurrences(matches) :
        Cardinality({j \in FirstOccurrences(matches) : j <= k}) = n

\* C10: find_similar_jobs returns at most top_k jobs, for every top_k >= 0 and
\* every list of matches the index returns.
C10_AtMostTopK ==
    findPc = "returned" => Len(findResult) <= findArgs.top_k

(***************************************************************************)
(* Texts.  A text is a sequence of characters; a character is a string of  *)
(* length one.                                                             *)
(***************************************************************************)
BS == "\\"
DQ == "\""
SQ == "'"
NL == "\n"
TAB == "\t"

\* what str.strip() removes and json skips between tokens
Whitespace == {" ", NL, TAB}

StartsWith(s, p) == Len(s) >= Len(p) /\ SubSeq(s, 1, Len(p)) = p

\* str.strip()
RECURSIVE LStrip(_)
LStrip(s) == IF s # <<>> /\ Head(s) \in Whitespace THEN LStrip(Tail(s)) ELSE s
RECURSIVE RStrip(_)
RStrip(s) ==
    IF s # <<>> /\ s[Len(s)] \in Whitespace THEN RStrip(SubSeq(s, 1, Len(s) - 1)) ELSE s
Strip(s) == RStrip(LStrip(s))

\* str.replace(a + b, r) for a pattern of two characters: left to right,
\* occurrences not overlapping
RECURSIVE Replace2(_, _, _, _)
Replace2(s, a, b, r) ==
    IF Len(s) < 2 THEN s
    ELSE IF s[1] = a /\ s[2] = b
    THEN <<r>> \o Replace2(SubSeq(s, 3, Len(s)), a, b, r)
    ELSE <<s[1]>> \o Replace2(Tail(s), a, b, r)

(***************************************************************************)
(* json.loads, on the characters of the model: objects, strings, numbers   *)
(* written with digits, whitespace.  A parsed value is the sequence of its *)
(* tokens, strings decoded.                                                *)
(***************************************************************************)
Digits == {"0", "1", "2", "3", "4", "5", "6", "7", "8", "9"}

\* json's escapes in a string, decoded (\b, \f, \r stand for themselves)
JsonEscapes ==
    [c \in {DQ, BS, "/", "b", "f", "n", "r", "t"} |->
        CASE c = "n" -> NL
          [] c = "t" -> TAB
          [] c = "b" -> "<b>"
          [] c = "f" -> "<f>"
          [] c = "r" -> "<r>"
          [] OTHER -> c]

\* strict mode: no raw control character in a string
ControlChars == {NL, TAB}

ParseFail == [ok |-> FALSE, pos |-> 0, val |-> <<>>]
ParseOk(p, v) == [ok |-> TRUE, pos |-> p, val |-> v]

RECURSIVE SkipWs(_, _)
SkipWs(s, i) == IF i <= Len(s) /\ s[i] \in Whitespace THEN SkipWs(s, i + 1) ELSE i

\* a string, from the character after its opening quote
RECURSIVE ScanString(_, _, _)
ScanString(s, i, acc) ==
    IF i > Len(s) THEN ParseFail
    ELSE IF s[i] = DQ THEN ParseOk(i + 1, <<"str">> \o acc \o <<"end">>)
    ELSE IF s[i] = BS
    THEN IF i + 1 <= Len(s) /\ s[i + 1] \in DOMAIN JsonEscapes
         THEN ScanString(s, i + 2, Append(acc, JsonEscapes[s[i + 1]]))
         ELSE ParseFail
    ELSE IF s[i] \in ControlChars THEN ParseFail
    ELSE ScanString(s, i + 1, Append(acc, s[i]))

\* a number: 0, or a digit other than 0 and the digits after it
RECURSIVE DigitsEnd(_, _)
DigitsEnd(s, i) == IF i <= Len(s) /\ s[i] \in Digits THEN DigitsEnd(s, i + 1) ELSE i
ScanNumber(s, i) ==
    LET e == IF s[i] = "0" THEN i + 1 ELSE DigitsEnd(s, i)
    IN ParseOk(e, <<"num">> \o SubSeq(s, i, e - 1) \o <<"end">>)

RECURSIVE ParseValue(_, _), ParseMembers(_, _, _)
ParseValue(s, i) ==
    IF i > Len(s) THEN ParseFail
    ELSE IF s[i] = DQ THEN ScanString(s, i + 1, <<>>)
    ELSE IF s[i] \in Digits THEN ScanNumber(s, i)
    ELSE IF s[i] = "{"
    THEN LET j == SkipWs(s, i + 1)
         IN IF j <= Len(s) /\ s[j] = "}" THEN ParseOk(j + 1, <<"{", "}">>)
            ELSE ParseMembers(s, j, <<"{">>)
    ELSE ParseFail

\* the members of an object, from the opening quote of a key
ParseMembers(s, i, acc) ==
    IF i > Len(s) \/ s[i] # DQ THEN ParseFail
    ELSE LET key == ScanString(s, i + 1, <<>>)
         IN IF ~key.ok THEN ParseFail
            ELSE LET c == SkipWs(s, key.pos)
                 IN IF c > Len(s) \/ s[c] # ":" THEN ParseFail
                    ELSE LET v == ParseValue(s, SkipWs(s, c + 1))
                         IN IF ~v.ok THEN ParseFail
                            ELSE LET e == SkipWs(s, v.pos)
                                     got == acc \o key.val \o <<":">> \o v.val
                                 IN IF e > Len(s) THEN ParseFail
                                    ELSE IF s[e] = "}" THEN ParseOk(e + 1, Append(got, "}"))
                                    ELSE IF s[e] = ","
                                    THEN ParseMembers(s, SkipWs(s, e + 1), Append(got, ","))
                                    ELSE ParseFail

\* json.loads(s): one value, whitespace around it, nothing else
JsonLoads(s) ==
    LET v == ParseValue(s, SkipWs(s, 1))
    IN IF v.ok /\ SkipWs(s, v.pos) = Len(s) + 1 THEN v ELSE ParseFail

\* the parsed value is a dict
IsDict(v) == v.ok /\ v.val[1] = "{"

(***************************************************************************)
(* SkillGapAnalyzer._extract_json_from_response.                           *)
(***************************************************************************)
\* "content='"
EnvelopeMarker == <<"c", "o", "n", "t", "e", "n", "t", "=", SQ>>

\* the index of the first single quote not preceded by a backslash, from i
RECURSIVE EnvelopeEnd(_, _)
EnvelopeEnd(s, i) ==
    IF i > Len(s) THEN i
    ELSE IF s[i] = SQ /\ s[i - 1] # BS THEN i
    ELSE EnvelopeEnd(s, i + 1)

\* response_str.startswith("content='"): the text up to the closing quote
EnvelopeContent(s) ==
    IF StartsWith(s, EnvelopeMarker)
    THEN SubSeq(s, Len(EnvelopeMarker) + 1, EnvelopeEnd(s, Len(EnvelopeMarker) + 1) - 1)
    ELSE s

Positions(s, c) == {i \in 1..Len(s) : s[i] = c}
Min(S) == CHOOSE x \in S : \A y \in S : x <= y
Max(S) == CHOOSE x \in S : \A y \in S : x >= y

\* re.search(r'^[^{]*(\{.*\})[^}]*$', s, re.DOTALL): group 1 runs from the
\* first "{" to the last "}".  The two code-fence patterns that follow in
\* patterns_to_remove need a "{...}" too, so they match only where this one
\* did, and the loop breaks at the first match.
RemoveWrapper(s) ==
    LET opens == Positions(s, "{")
        closes == Positions(s, "}")
    IN IF opens # {} /\ closes # {} /\ Min(opens) < Max(closes)
       THEN SubSeq(s, Min(opens), Max(closes))
       ELSE s

\* the four replace calls, in the code's order
UnescapeM1(s) == s
Unescape(s) ==
    Replace2(Replace2(Replace2(Replace2(s, BS, SQ, SQ), BS, DQ, DQ), BS, "n", NL),
             BS, "t", TAB)

ExtractJsonFromResponse(response) ==
    Unescape(Strip(RemoveWrapper(EnvelopeContent(response))))

(***************************************************************************)
(* SkillGapAnalyzer._extract_json_with_regex.                              *)
(***************************************************************************)
\* the next brace at or after i (Len(s) + 1: none)
RECURSIVE NextBrace(_, _)
NextBrace(s, i) ==
    IF i > Len(s) \/ s[i] \in {"{", "}"} THEN i ELSE NextBrace(s, i + 1)

\* r'\{(?:[^{}]|(?:\{[^{}]*\}))*\}' matched at an opening brace: the index of
\* the closing brace, 0 for no match; i is the position reached inside
RECURSIVE BraceMatchEnd(_, _)
BraceMatchEnd(s, i) ==
    LET j == NextBrace(s, i)
    IN IF j > Len(s) THEN 0
       ELSE IF s[j] = "}" THEN j
       ELSE LET k == NextBrace(s, j + 1)
            IN IF k > Len(s) \/ s[k] = "{" THEN 0
               ELSE BraceMatchEnd(s, k + 1)

\* re.findall(pattern, text): the matches from left to right, not overlapping
RECURSIVE FindAllBraces(_, _)
FindAllBraces(s, i) ==
    IF i > Len(s) THEN <<>>
    ELSE IF s[i] = "{" /\ BraceMatchEnd(s, i + 1) > 0
    THEN <<SubSeq(s, i, BraceMatchEnd(s, i + 1))>>
             \o FindAllBraces(s, BraceMatchEnd(s, i + 1) + 1)
    ELSE FindAllBraces(s, i + 1)

\* the first match that json.loads accepts, "" if none
RECURSIVE FirstParseable(_)
FirstParseable(ms) ==
    IF ms = <<>> THEN <<>>
    ELSE IF JsonLoads(Head(ms)).ok THEN Head(ms)
    ELSE FirstParseable(Tail(ms))

\* json_patterns: the second pattern uses (?R), which re rejects (re.error,
\* skipped); the third one matches the same spans as the first, so it finds
\* a parseable match exactly when the first one did
ExtractJsonWithRegex(text) == FirstParseable(FindAllBraces(text, 1))

(***************************************************************************)
(* SkillGapAnalyzer._analyze_single_job_match, from the response on: the   *)
(* cleaned text is parsed, then the brace patterns are tried on the raw    *)
(* text; ok = FALSE stands for the ValueError "Could not extract valid     *)
(* JSON from LLM response".                                                *)
(***************************************************************************)
Extracted(ok, v) == [ok |-> ok, val |-> v]

ExtractAnalysis(response) ==
    LET direct == JsonLoads(ExtractJsonFromResponse(response))
        json_match == ExtractJsonWithRegex(response)
    IN IF direct.ok THEN Extracted(TRUE, direct.val)
       ELSE IF json_match # <<>> /\ JsonLoads(json_match).ok
       THEN Extracted(TRUE, JsonLoads(json_match).val)
       ELSE Extracted(FALSE, <<>>)

(***************************************************************************)
(* SkillGapAnalyzer: records, fallback records, the loop over the jobs.    *)
(***************************************************************************)
\* str(e)
StrOfExc(e) == IF e.blank THEN "" ELSE e.cls

\* what ask_with_fallback does for one prompt: it raises exc, or returns text
AskRaises(e) == [raised |-> TRUE, exc |-> e, text |-> <<>>]
AskReturns(t) == [raised |-> FALSE, exc |-> NoExc, text |-> t]

ValueErrorReason == "Could not extract valid JSON from LLM response"
\* str(e) of the TypeError of analysis['job_info'] = ... on a value that is no dict
TypeErrorReason == "object does not support item assignment"

\* job_info
JobInfoOf(job) ==
    [title |-> GetOr(job, "title", ""),
     company |-> GetOr(job, "company_name", ""),
     location |-> GetOr(job, "location", ""),
     apply_link |-> GetOr(job, "apply_link", ""),
     similarity_score |-> GetOr(job, "similarity_score", 0)]

\* an Analysis Record: a parsed analysis (analysis_error absent: None) or a
\* fallback analysis with its error
RealRecord(val, job) ==
    [fallback |-> FALSE, analysis_error |-> None, payload |-> val,
     job_info |-> JobInfoOf(job)]
\* the overall_match_percentage of a fallback record
UnableToCalculate ==
    <<"U", "n", "a", "b", "l", "e", " ", "t", "o", " ",
      "c", "a", "l", "c", "u", "l", "a", "t", "e">>

\* the placeholder of missing_skills and skill_level_gaps
AnalysisFailedSkill == "Analysis failed - manual review needed"

\* the characters of the texts that resumes and jobs hold
CharsOf(s) ==
    CASE s = "" -> <<>>
      [] s = "Python" -> <<"P", "y", "t", "h", "o", "n">>
      [] s = "Sql" -> <<"S", "q", "l">>
      [] s = "DEV" -> <<"D", "E", "V">>
      [] s = "Ops" -> <<"O", "p", "s">>
      [] s = "Dev" -> <<"D", "e", "v">>
      [] s = "Eng" -> <<"E", "n", "g">>
      [] s = "python dev" -> <<"p", "y", "t", "h", "o", "n", " ", "d", "e", "v">>

\* str.lower()
UpperLetters == <<"A", "B", "C", "D", "E", "F", "G", "H", "I", "J", "K", "L", "M",
                  "N", "O", "P", "Q", "R", "S", "T", "U", "V", "W", "X", "Y", "Z">>
LowerLetters == <<"a", "b", "c", "d", "e", "f", "g", "h", "i", "j", "k", "l", "m",
                  "n", "o", "p", "q", "r", "s", "t", "u", "v", "w", "x", "y", "z">>
LowerChar(c) ==
    IF \E i \in 1..Len(UpperLetters) : UpperLetters[i] = c
    THEN LowerLetters[CHOOSE i \in 1..Len(UpperLetters) : UpperLetters[i] = c]
    ELSE c
StrLowerM1(s) == s
StrLower(s) == [i \in 1..Len(s) |-> LowerChar(s[i])]

\* a in b, for two texts
IsSubstring(a, b) ==
    \E i \in 0..(Len(b) - Len(a)) : SubSeq(b, i + 1, i + Len(a)) = a

\* job_text = (job.get('description', '') + ' ' + job.get('title', '')).lower()
JobText(job) ==
    StrLower(CharsOf(GetOr(job, "description", "")) \o <<" ">>
                 \o CharsOf(GetOr(job, "title", "")))

\* [skill for skill in extracted_skills if skill.lower() in job_text]
MatchingSkills(skills, job_text) ==
    SelectSeq(skills, LAMBDA skill : IsSubstring(StrLower(CharsOf(skill)), job_text))

\* extracted_skills[:3]
TransferableSkills(skills) ==
    SubSeq(skills, 1, IF Len(skills) < 3 THEN Len(skills) ELSE 3)

\* _create_fallback_analysis(resume_info, job, error), for a job whose
\* description and title are texts
FallbackRecord(resume_info, error, job) ==
    [fallback |-> TRUE, analysis_error |-> error, payload |-> <<>>,
     matching_skills |-> MatchingSkills(resume_info.extracted_skills, JobText(job)),
     missing_skills |-> <<AnalysisFailedSkill>>,
     skill_level_gaps |-> <<AnalysisFailedSkill>>,
     transferable_skills |-> TransferableSkills(resume_info.extracted_skills),
     overall_match_percentage |-> UnableToCalculate,
     job_info |-> JobInfoOf(job)]

\* _create_fallback_analysis raises a TypeError on
\* (job.get('description', '') + ' ' + job.get('title', '')) when either is None
FallbackRaises(job) ==
    GetOr(job, "description", "") = None \/ GetOr(job, "title", "") = None

Single(k, v, r) == [kind |-> k, val |-> v, reason |-> r]

\* the except branch of _analyze_single_job_match: the fallback analysis for
\* str(e), or the TypeError of building it
SingleFallback(job, reason) ==
    IF FallbackRaises(job) THEN Single("raise", <<>>, "TypeError")
    ELSE Single("fallback", <<>>, reason)

\* _analyze_single_job_match: the parsed analysis, a fallback analysis, or
\* an exception
AnalyzeSingleJobMatch(job, out) ==
    IF out.raised THEN SingleFallback(job, StrOfExc(out.exc))
    ELSE IF ExtractAnalysis(out.text).ok
    THEN Single("analysis", ExtractAnalysis(out.text).val, "")
    ELSE SingleFallback(job, ValueErrorReason)

\* analyses.append(...)
AppendRecordM1(recs, rec) == <<rec>> \o recs
AppendRecord(recs, rec) == Append(recs, rec)

\* one pass of the loop of analyze_resume_vs_jobs: the list with the job's
\* record appended; raised when the except branch itself raises
LoopResult(raised, recs) == [raised |-> raised, recs |-> recs]

\* the rest of the loop body once _analyze_single_job_match has come back
\* with single: job_info is set on a dict and the record appended; anything
\* else goes to the except branch, which builds the fallback analysis
RecordSingle(recs, resume_info, job, single) ==
    IF single.kind = "fallback"
    THEN LoopResult(FALSE, AppendRecord(recs, FallbackRecord(resume_info, single.reason, job)))
    ELSE IF single.kind = "analysis" /\ single.val[1] = "{"
    THEN LoopResult(FALSE, AppendRecord(recs, RealRecord(single.val, job)))
    ELSE IF FallbackRaises(job) THEN LoopResult(TRUE, recs)
    ELSE IF single.kind = "analysis"
    THEN LoopResult(FALSE,
                    AppendRecord(recs, FallbackRecord(resume_info, TypeErrorReason, job)))
    ELSE LoopResult(FALSE,
                    AppendRecord(recs, FallbackRecord(resume_info, single.reason, job)))

AnalyzeOneJob(recs, resume_info, job, out) ==
    RecordSingle(recs, resume_info, job, AnalyzeSingleJobMatch(job, out))

\* the job fields of the prompt of _analyze_single_job_match
PromptJobFields(job) ==
    [job_title |-> GetOr(job, "title", "Unknown"),
     job_company |-> GetOr(job, "company_name", "Unknown"),
     job_description |-> GetOr(job, "description", "No description available"),
     job_location |-> GetOr(job, "location", "Unknown")]

\* resume_info as the resume processor builds it
Resumes ==
    { [extracted_skills |-> <<"Python", "Sql">>],
      [extracted_skills |-> <<"Sql", "DEV", "Ops", "Python">>] }

\* jobs as the client sends them (List[Dict[str, Any]]): a job as
\* find_similar_jobs returns it, one with a null description, one with
\* nothing but a title
JobSamples ==
    { [title |-> "Dev", company_name |-> "Acme", location |-> "NYC",
       apply_link |-> "http://a", description |-> "python dev", similarity_score |-> 2],
      [title |-> "Eng", description |-> None],
      [title |-> "Ops"] }
JobLists == UNION { [1..n -> JobSamples] : n \in 0..MaxJobs }

\* what ask_with_fallback raises, and the texts it returns, in the batch model
AskFailures ==
    { Exc("APITimeoutError", 0, {"timeout"}, FALSE),
      Exc("ReadTimeout", 0, {}, TRUE) }
GoodJson == <<"{", DQ, "a", DQ, ":", "1", "}">>
BatchTexts ==
    { GoodJson, EnvelopeMarker \o GoodJson \o <<SQ>>, <<"n", "a">>, <<"1">> }
AskOutcomes == {AskRaises(e) : e \in AskFailures} \cup {AskReturns(t) : t \in BatchTexts}

InitAnalyze ==
    /\ NewManager(1)
    /\ IdleFind
    /\ IdleAnalyze
    /\ IdleExtract
    /\ IdleEmbed
    /\ IdleReport
    /\ IdleClassify
    /\ IdleWeb
    /\ IdleConcurrent

\* analyze_resume_vs_jobs is called: analyses = []
AnalyzeStart(resume, jobs) ==
    /\ anPc = "idle"
    /\ anResume' = resume
    /\ anJobs' = jobs
    /\ anIdx' = 1
    /\ analyses' = <<>>
    /\ anOutcomes' = <<>>
    /\ anPrompts' = <<>>
    /\ anPc' = "loop"
    /\ UNCHANGED <<askVars, findVars, exVars, emVars, rpVars, clVars, coVars, webVars>>

\* the loop moves on to the next job, or the exception leaves the function
LoopStep(res) ==
    /\ analyses' = res.recs
    /\ anPc' = IF res.raised THEN "raised" ELSE "loop"
    /\ anIdx' = IF res.raised THEN anIdx ELSE anIdx + 1

\* the loop body for jobs[anIdx], ask_with_fallback doing out
AnalyzeJob(out) ==
    /\ anPc = "loop"
    /\ anIdx <= Len(anJobs)
    /\ anOutcomes' = Append(anOutcomes, out)
    /\ anPrompts' = Append(anPrompts, PromptJobFields(anJobs[anIdx]))
    /\ LoopStep(AnalyzeOneJob(analyses, anResume, anJobs[anIdx], out))
    /\ UNCHANGED <<anResume, anJobs>>
    /\ UNCHANGED <<askVars, findVars, exVars, emVars, rpVars, clVars, coVars, webVars>>

\* return analyses
AnalyzeReturn ==
    /\ anPc = "loop"
    /\ anIdx > Len(anJobs)
    /\ anPc' = "returned"
    /\ UNCHANGED <<anResume, anJobs, anIdx, analyses, anOutcomes, anPrompts>>
    /\ UNCHANGED <<askVars, findVars, exVars, emVars, rpVars, clVars, coVars, webVars>>

NextAnalyze ==
    \/ \E resume \in Resumes, jobs \in JobLists : AnalyzeStart(resume, jobs)
    \/ \E out \in AskOutcomes : AnalyzeJob(out)
    \/ AnalyzeReturn

SpecAnalyze == InitAnalyze /\ [][NextAnalyze]_vars

(***************************************************************************)
(* The pipeline of the two endpoints: the jobs find_similar_jobs returned  *)
(* come back from the client as they were sent (List[Dict[str, Any]]) and  *)
(* are handed to analyze_resume_vs_jobs.                                   *)
(***************************************************************************)
PipelineTopK == {1, 2}
PipelineResults == { r \in IndexResults : Len(r) <= 2 }

\* analyze_resume_vs_jobs(resume_info, similar_jobs)
AnalyzeFound(resume) ==
    /\ findPc = "returned"
    /\ AnalyzeStart(resume, findResult)

NextPipeline ==
    \/ /\ findPc = "idle"
       /\ \E resume_id \in ResumeIds, top_k \in PipelineTopK, query_id \in QueryIds,
             r \in PipelineResults : FindSimilarJobs(resume_id, top_k, query_id, r)
    \/ \E resume \in Resumes : AnalyzeFound(resume)
    \/ \E out \in AskOutcomes : AnalyzeJob(out)
    \/ AnalyzeReturn

SpecPipeline == InitFind /\ [][NextPipeline]_vars

(***************************************************************************)
(* One generated text through the extraction of _analyze_single_job_match. *)
(* The text is what ask returns for a provider's response: the response's  *)
(* own text, or str() of a message object, "content=" followed by the      *)
(* repr of the message's content and the message's other fields.           *)
(***************************************************************************)
Range(s) == {s[i] : i \in 1..Len(s)}

\* repr() of a str: double quotes only when the text has a single quote and
\* no double quote; the backslash, the quote, newline and tab are escaped
ReprQuote(s) == IF SQ \in Range(s) /\ DQ \notin Range(s) THEN DQ ELSE SQ
ReprChar(c, q) ==
    IF c = BS THEN <<BS, BS>>
    ELSE IF c = q THEN <<BS, q>>
    ELSE IF c = NL THEN <<BS, "n">>
    ELSE IF c = TAB THEN <<BS, "t">>
    ELSE <<c>>
RECURSIVE ReprBody(_, _)
ReprBody(s, q) ==
    IF s = <<>> THEN <<>> ELSE ReprChar(Head(s), q) \o ReprBody(Tail(s), q)
PyRepr(s) == <<ReprQuote(s)>> \o ReprBody(s, ReprQuote(s)) \o <<ReprQuote(s)>>

\* the fields str() prints after the content
MessageSuffix == <<" ", "a", "d", "d", "i", "t", "i", "o", "n", "a", "l", "_",
                   "k", "w", "a", "r", "g", "s", "=", "{", "}">>

\* return str(resp)
StrOfMessage(content) ==
    <<"c", "o", "n", "t", "e", "n", "t", "=">> \o PyRepr(content) \o MessageSuffix

\* the characters of the short generated texts
TextChars == {"{", "}", DQ, SQ, BS, ":", "n", "1"}
ShortTexts == UNION { [1..n -> TextChars] : n \in 0..MaxTextLen }

\* generated texts a model sends for the analysis prompt: an object, one with
\* a newline escape inside a string, one with an escaped backslash, one
\* pretty-printed over two lines, one with an apostrophe, one with escaped
\* double quotes, one with prose around the object, one three objects deep
\* with a newline escape, one with a brace inside a string and one three
\* objects deep, both followed by a stray brace
LongTexts ==
    { GoodJson,
      <<"{", DQ, "a", DQ, ":", DQ, "x", BS, "n", "y", DQ, "}">>,
      <<"{", DQ, "a", DQ, ":", DQ, "c", BS, BS, "x", DQ, "}">>,
      <<"{", NL, DQ, "a", DQ, ":", TAB, "1", NL, "}">>,
      <<"{", DQ, "a", DQ, ":", DQ, "i", "t", SQ, "s", DQ, "}">>,
      <<"{", DQ, "a", DQ, ":", DQ, BS, DQ, "h", BS, DQ, DQ, "}">>,
      <<"o", "k", ":", " ">> \o GoodJson \o <<" ", "!">>,
      <<"{", DQ, "a", DQ, ":", "{", DQ, "b", DQ, ":", "{", DQ, "c", DQ, ":",
        DQ, "x", BS, "n", "y", DQ, "}", "}", "}">>,
      <<"{", DQ, "a", DQ, ":", DQ, "{", DQ, "}", " ", "}">>,
      <<"{", DQ, "a", DQ, ":", "{", DQ, "b", DQ, ":", "{", DQ, "c", DQ, ":",
        "1", "}", "}", "}", " ", "}">> }
Contents == ShortTexts \cup LongTexts

\* lines 158-178 for the response: the parsed analysis is returned, or the
\* ValueError is raised
ExtractionOf(ex) ==
    IF ex.ok THEN Single("analysis", ex.val, "")
    ELSE Single("raise", <<>>, ValueErrorReason)

InitExtract ==
    /\ NewManager(1)
    /\ IdleFind
    /\ IdleAnalyze
    /\ IdleExtract
    /\ IdleEmbed
    /\ IdleReport
    /\ IdleClassify
    /\ IdleWeb
    /\ IdleConcurrent

\* ask returns the text of a response whose text is content
RespondText(content) ==
    /\ exPc = "idle"
    /\ exContent' = content
    /\ exResponse' = content
    /\ exPc' = "asked"
    /\ UNCHANGED exResult
    /\ UNCHANGED <<askVars, findVars, anVars, emVars, rpVars, clVars, coVars, webVars>>

\* ask returns str() of a message whose content is content
RespondMessage(content) ==
    /\ exPc = "idle"
    /\ exContent' = content
    /\ exResponse' = StrOfMessage(content)
    /\ exPc' = "asked"
    /\ UNCHANGED exResult
    /\ UNCHANGED <<askVars, findVars, anVars, emVars, rpVars, clVars, coVars, webVars>>

\* the response is cleaned and parsed, with the regex search as second try
ExtractJson ==
    /\ exPc = "asked"
    /\ exResult' = ExtractionOf(ExtractAnalysis(exResponse))
    /\ exPc' = "done"
    /\ UNCHANGED <<exContent, exResponse>>
    /\ UNCHANGED <<askVars, findVars, anVars, emVars, rpVars, clVars, coVars, webVars>>

NextExtract ==
    \/ \E content \in Contents : RespondText(content)
    \/ \E content \in Contents : RespondMessage(content)
    \/ ExtractJson

SpecExtract == InitExtract /\ [][NextExtract]_vars

(***************************************************************************)
(* ResumeProcessor._embed_text and _embed_chunk_with_retry.                *)
(***************************************************************************)
\* text_for_embedding: None, or a text of letters and blanks
EmbedChars == {"a", " "}
NoneText == <<None>>
EmbedTexts == {NoneText} \cup UNION { [1..n -> EmbedChars] : n \in 0..MaxEmbedLen }

\* (text_for_embedding or "").strip()
StrippedText(t) == IF t = NoneText THEN <<>> ELSE Strip(t)

Least(a, b) == IF a < b THEN a ELSE b

\* [text[i:i+chunk_size] for i in range(0, len(text), chunk_size)
\*  if text[i:i+chunk_size].strip()], from the 1-based position i on
RECURSIVE ChunksFrom(_, _, _)
ChunksFrom(text, i, chunk_size) ==
    IF i > Len(text) THEN <<>>
    ELSE LET piece == SubSeq(text, i, Least(i + chunk_size - 1, Len(text)))
         IN (IF Strip(piece) # <<>> THEN <<piece>> ELSE <<>>)
            \o ChunksFrom(text, i + chunk_size, chunk_size)
\* range(0, len(text), chunk_size) starting one character late
ChunksM1(text, chunk_size) == ChunksFrom(text, 2, chunk_size)
Chunks(text, chunk_size) == ChunksFrom(text, 1, chunk_size)

\* the vectors embed_query answers with
Vectors == { <<0, 4>>, <<6, 2>> }

\* a float, kept exact as a fraction in lowest terms
RECURSIVE Gcd(_, _)
Gcd(a, b) == IF b = 0 THEN a ELSE Gcd(b, a % b)
Frac(n, d) == IF n = 0 THEN <<0, 1>> ELSE <<n \div Gcd(n, d), d \div Gcd(n, d)>>

\* np.array(e, dtype=float)
FloatArrayM1(e) == [j \in 1..Len(e) |-> Frac(2 * e[j], 1)]
FloatArray(e) == [j \in 1..Len(e) |-> Frac(e[j], 1)]

\* a/b + c/d
FracAdd(x, y) == Frac(x[1] * y[2] + y[1] * x[2], x[2] * y[2])
RECURSIVE ColumnSum(_, _, _)
ColumnSum(embs, j, k) ==
    IF k = 0 THEN <<0, 1>> ELSE FracAdd(ColumnSum(embs, j, k - 1), embs[k][j])

\* np.mean(np.stack(chunk_embs, axis=0), axis=0)
MeanCountM1(embs) == Len(embs) + 1
MeanCount(embs) == Len(embs)
FracOver(x, n) == Frac(x[1], x[2] * n)
Mean(embs) ==
    [j \in 1..Len(embs[1]) |-> FracOver(ColumnSum(embs, j, Len(embs)), MeanCount(embs))]

\* if len(chunk_embs) == 1: return chunk_embs[0].tolist()
SingleChunk(embs) == Len(embs) = 1
EmbedResult(embs) == IF SingleChunk(embs) THEN embs[1] ELSE Mean(embs)

\* what embed_query raises: the two read timeouts the decorator names, a
\* connect timeout and an HTTP error
EmbedErrors ==
    { "urllib3.exceptions.ReadTimeoutError", "requests.exceptions.ReadTimeout",
      "requests.exceptions.ConnectTimeout", "requests.exceptions.HTTPError" }

\* retry=retry_if_exception_type((ReadTimeoutError, ReadTimeout))
Retried(e) ==
    e \in {"urllib3.exceptions.ReadTimeoutError", "requests.exceptions.ReadTimeout"}

\* stop=stop_after_attempt(4)
StopAfterAttempt == 4
StopM1(n) == n > StopAfterAttempt
Stop(n) == n >= StopAfterAttempt

EmbedCall(c, n, o, v) == [chunk |-> c, attempt |-> n, outcome |-> o, vec |-> v]

InitEmbed ==
    /\ NewManager(1)
    /\ IdleFind
    /\ IdleAnalyze
    /\ IdleExtract
    /\ IdleEmbed
    /\ IdleReport
    /\ IdleClassify
    /\ IdleWeb
    /\ IdleConcurrent

\* if not text: return []
EmbedEmptyM1(text) == FALSE
EmbedEmpty(text) == StrippedText(text) = <<>>

\* _embed_text on nothing to embed
EmbedNothing(text, chunk_size) ==
    /\ emPc = "idle"
    /\ EmbedEmpty(text)
    /\ emText' = text
    /\ emChunkSize' = chunk_size
    /\ emResult' = <<>>
    /\ emPc' = "returned"
    /\ UNCHANGED <<emChunks, emIdx, emAttempt, emEmbs, emRaised, emCalls>>
    /\ UNCHANGED <<askVars, findVars, anVars, exVars, rpVars, clVars, coVars, webVars>>

\* _embed_text up to the loop over the chunks
EmbedStart(text, chunk_size) ==
    /\ emPc = "idle"
    /\ ~EmbedEmpty(text)
    /\ emText' = text
    /\ emChunkSize' = chunk_size
    /\ emChunks' = Chunks(StrippedText(text), chunk_size)
    /\ emIdx' = 1
    /\ emAttempt' = 1
    /\ emEmbs' = <<>>
    /\ emPc' = "chunk"
    /\ UNCHANGED <<emResult, emRaised, emCalls>>
    /\ UNCHANGED <<askVars, findVars, anVars, exVars, rpVars, clVars, coVars, webVars>>

\* embed_query answers for the chunk: its array is appended
EmbedCallOk(vec) ==
    /\ emPc = "chunk"
    /\ emIdx <= Len(emChunks)
    /\ emCalls' = Append(emCalls, EmbedCall(emChunks[emIdx], emAttempt, "ok", vec))
    /\ emEmbs' = Append(emEmbs, FloatArray(vec))
    /\ emIdx' = emIdx + 1
    /\ emAttempt' = 1
    /\ UNCHANGED <<emPc, emText, emChunkSize, emChunks, emResult, emRaised>>
    /\ UNCHANGED <<askVars, findVars, anVars, exVars, rpVars, clVars, coVars, webVars>>

\* embed_query raises e: the decorator waits and calls again, or e is raised
EmbedCallFail(e) ==
    /\ emPc = "chunk"
    /\ emIdx <= Len(emChunks)
    /\ emCalls' = Append(emCalls, EmbedCall(emChunks[emIdx], emAttempt,
                                            IF Retried(e) THEN "timeout" ELSE "error", <<>>))
    /\ IF Retried(e) /\ ~Stop(emAttempt)
       THEN /\ emAttempt' = emAttempt + 1
            /\ UNCHANGED <<emPc, emRaised>>
       ELSE /\ emPc' = "raised"
            /\ emRaised' = e
            /\ UNCHANGED emAttempt
    /\ UNCHANGED <<emText, emChunkSize, emChunks, emIdx, emEmbs, emResult>>
    /\ UNCHANGED <<askVars, findVars, anVars, exVars, rpVars, clVars, coVars, webVars>>

\* the chunks are done: the one array, or the mean of the arrays
EmbedReturn ==
    /\ emPc = "chunk"
    /\ emIdx > Len(emChunks)
    /\ emResult' = EmbedResult(emEmbs)
    /\ emPc' = "returned"
    /\ UNCHANGED <<emText, emChunkSize, emChunks, emIdx, emAttempt, emEmbs,
                   emRaised, emCalls>>
    /\ UNCHANGED <<askVars, findVars, anVars, exVars, rpVars, clVars, coVars, webVars>>

NextEmbed ==
    \/ /\ emPc = "idle"
       /\ \E text \in EmbedTexts, chunk_size \in 1..MaxChunkSize :
             EmbedNothing(text, chunk_size)
    \/ /\ emPc = "idle"
       /\ \E text \in EmbedTexts, chunk_size \in 1..MaxChunkSize :
             EmbedStart(text, chunk_size)
    \/ \E vec \in Vectors : EmbedCallOk(vec)
    \/ \E e \in EmbedErrors : EmbedCallFail(e)
    \/ EmbedReturn

SpecEmbed == InitEmbed /\ [][NextEmbed]_vars

(***************************************************************************)
(* SkillGapAnalyzer.generate_overall_report and _generate_next_steps.  An  *)
(* analysis record is a JSON value as json.loads builds it: a dict, a      *)
(* list, a string, an integer, a float (its whole part and its tenths), a  *)
(* boolean or null.                                                        *)
(***************************************************************************)
JDict(f) == [t |-> "dict", items |-> f]
JList(s) == [t |-> "list", elems |-> s]
JStr(s) == [t |-> "str", s |-> s]
JInt(n) == [t |-> "int", n |-> n]
JFloat(whole, tenths) == [t |-> "float", n |-> whole, f |-> tenths]
JTrue == [t |-> "bool", n |-> 1]
JNull == [t |-> "null"]

\* dict.get(key, default)
DictGet(d, key, default) == IF key \in DOMAIN d.items THEN d.items[key] ELSE default

\* the record of _create_fallback_analysis, as far as the report reads it
FallbackAnalysis ==
    JDict([skill_gap_analysis |->
               JDict([matching_skills |-> JList(<<"python">>),
                      missing_skills |-> JList(<<AnalysisFailedSkill>>)]),
           job_match_assessment |->
               JDict([overall_match_percentage |-> JStr(UnableToCalculate)])])

\* the record of a generated analysis with the given match value
Analysis(match_pct) ==
    JDict([skill_gap_analysis |->
               JDict([matching_skills |-> JList(<<"python">>),
                      missing_skills |-> JList(<<"docker">>)]),
           job_match_assessment |-> JDict([overall_match_percentage |-> match_pct])])

\* the match values of the generated analyses of this model: the integer the
\* prompt asks for, percentage strings, a float, a boolean
MatchValues ==
    { JInt(80), JInt(60), JInt(40), JInt(70), JInt(50),
      JStr(<<"6", "0", "%">>), JStr(<<" ", "7", "_", "1", " ", "%">>),
      JStr(<<"8", "0", ".", "5", "%">>), JFloat(72, 9), JTrue }

\* generated analyses that lack a section, or carry null where the prompt
\* asks for an object or a list
NoAssessment ==
    JDict([skill_gap_analysis |->
               JDict([matching_skills |-> JList(<<"python">>),
                      missing_skills |-> JList(<<"docker">>)])])
NullAssessment ==
    JDict([skill_gap_analysis |->
               JDict([matching_skills |-> JList(<<"python">>),
                      missing_skills |-> JList(<<"docker">>)]),
           job_match_assessment |-> JNull])
NullMissingSkills ==
    JDict([skill_gap_analysis |->
               JDict([matching_skills |-> JList(<<"python">>),
                      missing_skills |-> JNull]),
           job_match_assessment |-> JDict([overall_match_percentage |-> JInt(80)])])

AnalysisRecords ==
    {FallbackAnalysis, NoAssessment, NullAssessment, NullMissingSkills}
        \cup { Analysis(v) : v \in MatchValues }

\* generated analyses that differ in their skill lists: twelve missing
\* skills over two lists, lists that repeat a skill or share skills with
\* the others, an empty list
MissingSkillLists ==
    { <<"docker", "aws", "sql", "java", "go", "rust">>,
      <<"react", "kafka", "redis", "linux", "git", "azure">>,
      <<"azure", "sql", "azure">>,
      <<"git", "aws">>,
      <<>> }
MatchingSkillLists == { <<"python">>, <<"sql", "python">> }
SkillRecord(missing, matching) ==
    JDict([skill_gap_analysis |->
               JDict([matching_skills |-> JList(matching),
                      missing_skills |-> JList(missing)]),
           job_match_assessment |-> JDict([overall_match_percentage |-> JInt(80)])])
SkillRecords ==
    { SkillRecord(missing, matching) :
          missing \in MissingSkillLists, matching \in MatchingSkillLists }

\* the lists handed to generate_overall_report: the records of up to
\* MaxJobs jobs, and one record for every whole percentage
AnalysesLists ==
    UNION { [1..n -> AnalysisRecords] : n \in 0..MaxJobs }
        \cup UNION { [1..n -> SkillRecords] : n \in 1..MaxJobs }
        \cup { <<Analysis(JInt(v))>> : v \in 0..100 }

\* what lines 302-307 raise on one record: .get on a value that is no dict,
\* list.extend on a value that is no list
RecordError(a) ==
    IF DictGet(a, "skill_gap_analysis", JDict(<<>>)).t # "dict"
    THEN "AttributeError"
    ELSE IF DictGet(DictGet(a, "skill_gap_analysis", JDict(<<>>)),
                    "missing_skills", JList(<<>>)).t # "list"
    THEN "TypeError"
    ELSE IF DictGet(DictGet(a, "skill_gap_analysis", JDict(<<>>)),
                    "matching_skills", JList(<<>>)).t # "list"
    THEN "TypeError"
    ELSE IF DictGet(a, "job_match_assessment", JDict(<<>>)).t # "dict"
    THEN "AttributeError"
    ELSE ""

\* the first record of the loop that raises, 0 when none does
FirstRaising(recs) ==
    IF \E k \in 1..Len(recs) : RecordError(recs[k]) # ""
    THEN Min({k \in 1..Len(recs) : RecordError(recs[k]) # ""})
    ELSE 0

\* analysis.get('job_match_assessment', {}).get('overall_match_percentage', '')
MatchPct(a) ==
    DictGet(DictGet(a, "job_match_assessment", JDict(<<>>)),
            "overall_match_percentage", JStr(<<>>))

\* str.replace('%', '')
RECURSIVE RemovePercent(_)
RemovePercent(s) ==
    IF s = <<>> THEN <<>>
    ELSE IF Head(s) = "%" THEN RemovePercent(Tail(s))
    ELSE <<Head(s)>> \o RemovePercent(Tail(s))

\* int(str): surrounding whitespace and one sign are allowed, then digits,
\* single underscores between them
Unsigned(s) == IF s # <<>> /\ Head(s) \in {"+", "-"} THEN Tail(s) ELSE s
IsIntBody(s) ==
    /\ s # <<>>
    /\ \A i \in 1..Len(s) :
          \/ s[i] \in Digits
          \/ s[i] = "_" /\ 1 < i /\ i < Len(s) /\ s[i - 1] \in Digits
                        /\ s[i + 1] \in Digits
IsIntLiteral(s) == IsIntBody(Unsigned(Strip(s)))
DigitValue(c) == CHOOSE d \in 0..9 : ToString(d) = c
RECURSIVE BodyValue(_, _)
BodyValue(s, acc) ==
    IF s = <<>> THEN acc
    ELSE IF Head(s) = "_" THEN BodyValue(Tail(s), acc)
    ELSE BodyValue(Tail(s), 10 * acc + DigitValue(Head(s)))
IntOfStr(s) ==
    IF Strip(s) # <<>> /\ Head(Strip(s)) = "-"
    THEN 0 - BodyValue(Unsigned(Strip(s)), 0)
    ELSE BodyValue(Unsigned(Strip(s)), 0)

\* lines 308-314, a string without a percent sign counted as 0
ParsedPctM1(match_pct) ==
    IF match_pct.t = "str" /\ "%" \in Range(match_pct.s)
    THEN IF IsIntLiteral(RemovePercent(match_pct.s))
         THEN <<IntOfStr(RemovePercent(match_pct.s))>>
         ELSE <<>>
    ELSE IF match_pct.t \in {"int", "float", "bool"}
    THEN <<match_pct.n>>
    ELSE <<0>>

\* lines 308-314: what one record appends to match_percentages
ParsedPct(match_pct) ==
    IF match_pct.t = "str" /\ "%" \in Range(match_pct.s)
    THEN IF IsIntLiteral(RemovePercent(match_pct.s))
         THEN <<IntOfStr(RemovePercent(match_pct.s))>>
         ELSE <<>>
    ELSE IF match_pct.t \in {"int", "float", "bool"}
    THEN <<match_pct.n>>
    ELSE <<>>

RECURSIVE MatchPercentages(_)
MatchPercentages(recs) ==
    IF recs = <<>> THEN <<>>
    ELSE ParsedPct(MatchPct(Head(recs))) \o MatchPercentages(Tail(recs))

RECURSIVE Sum(_)
Sum(s) == IF s = <<>> THEN 0 ELSE Head(s) + Sum(Tail(s))

\* the divisor of the average
DivisorM1(match_percentages, recs) == Len(recs)
Divisor(match_percentages, recs) == Len(match_percentages)

\* avg_match, a fraction in lowest terms; 0 when no value was parsed
AvgMatch(match_percentages, recs) ==
    IF match_percentages = <<>> THEN <<0, 1>>
    ELSE Frac(Sum(match_percentages), Divisor(match_percentages, recs))

\* the decimal digits of a natural number
RECURSIVE DigitsOf(_)
DigitsOf(n) ==
    IF n < 10 THEN <<ToString(n)>> ELSE Append(DigitsOf(n \div 10), ToString(n % 10))

\* '.1f' of a fraction that is not negative, in tenths: the nearest tenth,
\* the even one of two equally near (such a fraction ends in .25 or .75
\* when its denominator is below 20, and is then a float exactly)
Tenths(x) ==
    LET q == (10 * x[1]) \div x[2]
        r == (10 * x[1]) % x[2]
    IN IF 2 * r < x[2] THEN q
       ELSE IF 2 * r > x[2] THEN q + 1
       ELSE IF q % 2 = 0 THEN q ELSE q + 1

\* f"{avg_match:.1f}%"
FormatPct(x) ==
    DigitsOf(Tenths(x) \div 10) \o <<".", ToString(Tenths(x) % 10), "%">>

GoodAbove == 70
ImprovableAbove == 50

\* line 336
CareerReadiness(x) ==
    IF x[1] > GoodAbove * x[2] THEN "good"
    ELSE IF x[1] > ImprovableAbove * x[2] THEN "needs_improvement"
    ELSE "significant_gaps"

FoundationalBelow == 50
DevelopBelow == 70

\* _generate_next_steps: the first step
FirstNextStep(x) ==
    IF x[1] < FoundationalBelow * x[2]
    THEN "Focus on building foundational skills before applying to these positions"
    ELSE IF x[1] < DevelopBelow * x[2]
    THEN "Develop 2-3 key missing skills to improve job readiness"
    ELSE "You're well-positioned for these roles - consider applying!"

\* lines 302-304: all_missing_skills / all_matching_skills, the lists of the
\* records one after the other
RECURSIVE AllSkills(_, _)
AllSkills(recs, key) ==
    IF recs = <<>> THEN <<>>
    ELSE DictGet(DictGet(Head(recs), "skill_gap_analysis", JDict(<<>>)),
                 key, JList(<<>>)).elems \o AllSkills(Tail(recs), key)

\* Counter(skills): its keys, in the order of their first occurrence, and
\* the count of a key
RECURSIVE CounterKeys(_, _)
CounterKeys(skills, keys) ==
    IF skills = <<>> THEN keys
    ELSE CounterKeys(Tail(skills),
                     IF \E i \in 1..Len(keys) : keys[i] = Head(skills)
                     THEN keys ELSE Append(keys, Head(skills)))
CounterCount(skills, key) == Cardinality({i \in 1..Len(skills) : skills[i] = key})

\* where a key goes into a list sorted by count, largest first: behind the
\* keys that count as much or more
GoesBehindM1(skills, sorted, key) ==
    Cardinality({i \in 1..Len(sorted) :
                    CounterCount(skills, sorted[i]) > CounterCount(skills, key)})
GoesBehind(skills, sorted, key) ==
    Cardinality({i \in 1..Len(sorted) :
                    CounterCount(skills, sorted[i]) >= CounterCount(skills, key)})

\* sorted(items, key=count, reverse=True): a stable sort
RECURSIVE SortedByCount(_, _, _)
SortedByCount(skills, keys, sorted) ==
    IF keys = <<>> THEN sorted
    ELSE SortedByCount(skills, Tail(keys),
             SubSeq(sorted, 1, GoesBehind(skills, sorted, Head(keys)))
                 \o <<Head(keys)>>
                 \o SubSeq(sorted, GoesBehind(skills, sorted, Head(keys)) + 1,
                           Len(sorted)))

\* s[:n]
FirstN(s, n) == SubSeq(s, 1, IF Len(s) < n THEN Len(s) ELSE n)

MostCommonSkills == 10
TopSkillsToDevelop == 5

\* [skill for skill, count in Counter(skills).most_common(n)]
MostCommon(skills, n) ==
    FirstN(SortedByCount(skills, CounterKeys(skills, <<>>), <<>>), n)

NoAnalyses == "No successful analyses to generate report"

\* the dict the function returns for the average x
OverallReport(recs, x) ==
    [error |-> "",
     total_jobs_analyzed |-> Len(recs),
     average_match_percentage |-> FormatPct(x),
     career_readiness |-> CareerReadiness(x),
     most_common_missing_skills |->
         MostCommon(AllSkills(recs, "missing_skills"), MostCommonSkills),
     strongest_skills |->
         MostCommon(AllSkills(recs, "matching_skills"), MostCommonSkills),
     top_skills_to_develop |->
         FirstN(MostCommon(AllSkills(recs, "missing_skills"), MostCommonSkills),
                TopSkillsToDevelop),
     first_next_step |-> FirstNextStep(x),
     job_analyses |-> recs]

InitReport ==
    /\ NewManager(1)
    /\ IdleFind
    /\ IdleAnalyze
    /\ IdleExtract
    /\ IdleEmbed
    /\ IdleReport
    /\ IdleClassify
    /\ IdleWeb
    /\ IdleConcurrent

\* generate_overall_report(analyses) on an empty list
ReportNothing(recs) ==
    /\ rpPc = "idle"
    /\ recs = <<>>
    /\ rpAnalyses' = recs
    /\ rpReport' = [error |-> NoAnalyses]
    /\ rpPc' = "returned"
    /\ UNCHANGED <<askVars, findVars, anVars, exVars, emVars, clVars, coVars, webVars>>

\* generate_overall_report(analyses), every record read without an error
GenerateOverallReport(recs) ==
    /\ rpPc = "idle"
    /\ recs # <<>>
    /\ FirstRaising(recs) = 0
    /\ rpAnalyses' = recs
    /\ rpReport' = OverallReport(recs,
                                 AvgMatch(MatchPercentages(recs), recs))
    /\ rpPc' = "returned"
    /\ UNCHANGED <<askVars, findVars, anVars, exVars, emVars, clVars, coVars, webVars>>

\* generate_overall_report(analyses), the loop raising on a record
ReportRaises(recs) ==
    /\ rpPc = "idle"
    /\ recs # <<>>
    /\ FirstRaising(recs) # 0
    /\ rpAnalyses' = recs
    /\ rpReport' = [error |-> RecordError(recs[FirstRaising(recs)])]
    /\ rpPc' = "raised"
    /\ UNCHANGED <<askVars, findVars, anVars, exVars, emVars, clVars, coVars, webVars>>

NextReport ==
    \/ /\ rpPc = "idle"
       /\ \E recs \in AnalysesLists : ReportNothing(recs)
    \/ /\ rpPc = "idle"
       /\ \E recs \in AnalysesLists : GenerateOverallReport(recs)
    \/ /\ rpPc = "idle"
       /\ \E recs \in AnalysesLists : ReportRaises(recs)

SpecReport == InitReport /\ [][NextReport]_vars

(***************************************************************************)
(* _classify_error on its own, over the errors it can tell apart: every    *)
(* status it tests at and around its limits, and every set of the keywords *)
(* it looks for in the message.                                            *)
(***************************************************************************)
ClassifyStatuses == {0, 400, 401, 403, 404, 429, 499, 500, 503, 599, 600}

\* a message holding "quota exceeded" holds "quota"
ClassifyWords ==
    { w \in SUBSET (AuthWords \cup RateWords \cup TransientWords) :
         "quota exceeded" \in w => "quota" \in w }

ClassifyExcs ==
    { Exc("Exception", s, w, FALSE) : s \in ClassifyStatuses, w \in ClassifyWords }
        \cup { Exc("Exception", s, {}, TRUE) : s \in ClassifyStatuses }

InitClassify ==
    /\ NewManager(1)
    /\ IdleFind
    /\ IdleAnalyze
    /\ IdleExtract
    /\ IdleEmbed
    /\ IdleReport
    /\ IdleClassify
    /\ IdleWeb
    /\ IdleConcurrent

\* _classify_error(exc)
Classify(e) ==
    /\ clPc = "idle"
    /\ clExc' = e
    /\ clType' = ClassifyError(e)
    /\ clPc' = "returned"
    /\ UNCHANGED <<askVars, findVars, anVars, exVars, emVars, rpVars, coVars, webVars>>

NextClassify == \E e \in ClassifyExcs : Classify(e)

SpecClassify == InitClassify /\ [][NextClassify]_vars

(***************************************************************************)
(* LLMManager.ask called by several threads on one manager.  The steps of  *)
(* a thread are the reads and writes of self._llms, between which the      *)
(* interpreter may switch threads: the test of the slot (line 191), the    *)
(* call of create_llm and the store of its result (line 192), the read of  *)
(* the slot into llm (line 198).  A call that fails leaves the provider,   *)
(* after its retries if any, which use the same llm.                       *)
(***************************************************************************)
Threads == 1..MaxThreads

InitConcurrent ==
    /\ NewManager(1)
    /\ IdleFind
    /\ IdleAnalyze
    /\ IdleExtract
    /\ IdleEmbed
    /\ IdleReport
    /\ IdleClassify
    /\ IdleWeb
    /\ \E n \in 1..MaxProviders :
          /\ coLlms = [i \in 1..n |-> 0]
          /\ coMade = [i \in 1..n |-> 0]
    /\ coPc = [t \in Threads |-> "idle"]
    /\ coIdx = [t \in Threads |-> 0]
    /\ coNew = [t \in Threads |-> 0]
    /\ coLlm = [t \in Threads |-> 0]
    /\ coUsed = {}

\* a thread calls ask: the for loop starts at the first provider
CoAsk(t) ==
    /\ coPc[t] = "idle"
    /\ coPc' = [coPc EXCEPT ![t] = "check"]
    /\ coIdx' = [coIdx EXCEPT ![t] = 1]
    /\ UNCHANGED <<coLlms, coMade, coNew, coLlm, coUsed>>
    /\ UNCHANGED <<askVars, findVars, anVars, exVars, emVars, rpVars, clVars, webVars>>

\* the for loop is over: raise last_exc
CoRaise(t) ==
    /\ coPc[t] = "check"
    /\ coIdx[t] > Len(coLlms)
    /\ coPc' = [coPc EXCEPT ![t] = "done"]
    /\ UNCHANGED <<coLlms, coMade, coIdx, coNew, coLlm, coUsed>>
    /\ UNCHANGED <<askVars, findVars, anVars, exVars, emVars, rpVars, clVars, webVars>>

\* if self._llms[idx] is None
SlotIsNone(cache, i, made) == cache[i] = 0

CoCheck(t) ==
    /\ coPc[t] = "check"
    /\ coIdx[t] <= Len(coLlms)
    /\ coPc' = [coPc EXCEPT ![t] = IF SlotIsNone(coLlms, coIdx[t], coMade)
                                    THEN "create" ELSE "read"]
    /\ UNCHANGED <<coLlms, coMade, coIdx, coNew, coLlm, coUsed>>
    /\ UNCHANGED <<askVars, findVars, anVars, exVars, emVars, rpVars, clVars, webVars>>

\* provider.create_llm() returns a new client
CoCreateOk(t) ==
    /\ coPc[t] = "create"
    /\ coMade' = [coMade EXCEPT ![coIdx[t]] = @ + 1]
    /\ coNew' = [coNew EXCEPT ![t] = coMade[coIdx[t]] + 1]
    /\ coPc' = [coPc EXCEPT ![t] = "store"]
    /\ UNCHANGED <<coLlms, coIdx, coLlm, coUsed>>
    /\ UNCHANGED <<askVars, findVars, anVars, exVars, emVars, rpVars, clVars, webVars>>

\* provider.create_llm() raises: continue with the next provider
CoCreateFail(t) ==
    /\ coPc[t] = "create"
    /\ coIdx' = [coIdx EXCEPT ![t] = @ + 1]
    /\ coPc' = [coPc EXCEPT ![t] = "check"]
    /\ UNCHANGED <<coLlms, coMade, coNew, coLlm, coUsed>>
    /\ UNCHANGED <<askVars, findVars, anVars, exVars, emVars, rpVars, clVars, webVars>>

\* self._llms[idx] = the client create_llm returned
CoStore(t) ==
    /\ coPc[t] = "store"
    /\ coLlms' = [coLlms EXCEPT ![coIdx[t]] = coNew[t]]
    /\ coPc' = [coPc EXCEPT ![t] = "read"]
    /\ UNCHANGED <<coMade, coIdx, coNew, coLlm, coUsed>>
    /\ UNCHANGED <<askVars, findVars, anVars, exVars, emVars, rpVars, clVars, webVars>>

\* llm = self._llms[idx]
CoRead(t) ==
    /\ coPc[t] = "read"
    /\ coLlm' = [coLlm EXCEPT ![t] = coLlms[coIdx[t]]]
    /\ coPc' = [coPc EXCEPT ![t] = "invoke"]
    /\ UNCHANGED <<coLlms, coMade, coIdx, coNew, coUsed>>
    /\ UNCHANGED <<askVars, findVars, anVars, exVars, emVars, rpVars, clVars, webVars>>

\* provider.invoke(llm, ...) returns: ask returns the text
CoInvokeOk(t) ==
    /\ coPc[t] = "invoke"
    /\ coUsed' = coUsed \cup {<<coIdx[t], coLlm[t]>>}
    /\ coPc' = [coPc EXCEPT ![t] = "done"]
    /\ UNCHANGED <<coLlms, coMade, coIdx, coNew, coLlm>>
    /\ UNCHANGED <<askVars, findVars, anVars, exVars, emVars, rpVars, clVars, webVars>>

\* provider.invoke(llm, ...) raises and the provider is left
CoInvokeFail(t) ==
    /\ coPc[t] = "invoke"
    /\ coUsed' = coUsed \cup {<<coIdx[t], coLlm[t]>>}
    /\ coIdx' = [coIdx EXCEPT ![t] = @ + 1]
    /\ coPc' = [coPc EXCEPT ![t] = "check"]
    /\ UNCHANGED <<coLlms, coMade, coNew, coLlm>>
    /\ UNCHANGED <<askVars, findVars, anVars, exVars, emVars, rpVars, clVars, webVars>>

\* ask has returned or raised; the thread may call it again
CoDone(t) ==
    /\ coPc[t] = "done"
    /\ coPc' = [coPc EXCEPT ![t] = "idle"]
    /\ coIdx' = [coIdx EXCEPT ![t] = 0]
    /\ coNew' = [coNew EXCEPT ![t] = 0]
    /\ coLlm' = [coLlm EXCEPT ![t] = 0]
    /\ UNCHANGED <<coLlms, coMade, coUsed>>
    /\ UNCHANGED <<askVars, findVars, anVars, exVars, emVars, rpVars, clVars, webVars>>

NextConcurrent ==
    \/ \E t \in Threads : CoAsk(t)
    \/ \E t \in Threads : CoRaise(t)
    \/ \E t \in Threads : CoCheck(t)
    \/ \E t \in Threads : CoCreateOk(t)
    \/ \E t \in Threads : CoCreateFail(t)
    \/ \E t \in Threads : CoStore(t)
    \/ \E t \in Threads : CoRead(t)
    \/ \E t \in Threads : CoInvokeOk(t)
    \/ \E t \in Threads : CoInvokeFail(t)
    \/ \E t \in Threads : CoDone(t)

SpecConcurrent == InitConcurrent /\ [][NextConcurrent]_vars

(***************************************************************************)
(* The endpoints of backend/main.py over session_storage and user_resumes, *)
(* and those of main.py over user_resume_storage.  A handler is an async   *)
(* function with no await between its reads and writes of the dicts, so a  *)
(* request is one step; the background task run_analysis is a plain        *)
(* function run in a worker thread, its statements interleaved with the    *)
(* requests.  The user of a request is the uid of its verified token.  The  *)
(* startup event raises when a processor cannot be built, so the requests  *)
(* served find resume_processor and skill_analyzer initialized.            *)
(***************************************************************************)
Users == {"u1", "u2"}
\* the texts of the resumes uploaded
Docs == {"cvA", "cvB"}

\* store_resume_in_pinecone: resume_<user_id>_<md5 of the text>
ResumeIdOf(u, doc) == <<"resume", u, doc>>
\* the resume ids a request of u names: the ids of its own resumes and
\* the id of a resume of each other user
RequestIds(u) ==
    {ResumeIdOf(u, doc) : doc \in Docs} \cup {ResumeIdOf(v, "cvA") : v \in Users \ {u}}

\* None for a resume id and for a resume_info
NoId == <<>>
NoInfo == ""

\* session_storage.get(u): present says that the key is in the dict; keys
\* are the results kept (last_search, similar_jobs, analyses, report,
\* profile_data), task the status under the task's key ("": no such key)
NoSession ==
    [present |-> FALSE, resume_id |-> NoId, resume_info |-> NoInfo, keys |-> {},
     task |-> ""]
\* user_resumes.get(u)
NoResumes == [present |-> FALSE, list |-> <<>>]
\* user_resume_storage.get(u)
NoResume == [present |-> FALSE, resume_id |-> NoId, resume_info |-> NoInfo]

ResumeEntry(resume_id, resume_info) ==
    [resume_id |-> resume_id, resume_info |-> resume_info]

\* a request: the user of the token, the user named in the path, the
\* resume id or the text of the file it carries, and what the services it
\* calls do
Request(op, u, path_user, resume_id, doc, outcome) ==
    [op |-> op, user |-> u, path_user |-> path_user, resume_id |-> resume_id,
     doc |-> doc, outcome |-> outcome]

\* what a response carries, each part empty when it is not there
NoBody ==
    [resume_id |-> NoId, resume_info |-> NoInfo, resume_history |-> <<>>,
     session_data |-> NoSession, query_id |-> <<>>, status |-> "", totals |-> <<>>]

\* what handling a request gives: the dicts, the status, whether the index
\* query or the analysis ran, and what the response carries
Handled(ss, ur, urs, status, ran, body) ==
    [ss |-> ss, ur |-> ur, urs |-> urs, status |-> status, ran |-> ran, body |-> body]
Rejected(ss, ur, urs, status) == Handled(ss, ur, urs, status, FALSE, NoBody)

\* session_storage[user_uid][key] = ...
WithKey(ss, u, key) == [ss EXCEPT ![u].keys = @ \cup {key}]

\* user_session.get("resume_id") != resume_id
OwnsResumeM1(session, resume_id) == session.present
OwnsResume(session, resume_id) == session.resume_id = resume_id

\* user_resumes[user_uid] = [{...}]
NewHistoryM1(list, entry) == Append(list, entry)
NewHistory(list, entry) == <<entry>>

\* user_uid = current_user["uid"]
CurrentUser(req) == req.user

\* backend/main.py upload_resume
UploadResume(ss, ur, urs, u, doc, outcome) ==
    IF outcome = "bad_type" THEN Rejected(ss, ur, urs, 400)
    ELSE IF outcome = "error" THEN Rejected(ss, ur, urs, 500)
    ELSE Handled([ss EXCEPT ![u].present = TRUE,
                            ![u].resume_id = ResumeIdOf(u, doc),
                            ![u].resume_info = doc],
                 [ur EXCEPT ![u] =
                     [present |-> TRUE,
                      list |-> NewHistory(ur[u].list,
                                          ResumeEntry(ResumeIdOf(u, doc), doc))]],
                 urs, 200, FALSE,
                 [NoBody EXCEPT !.resume_id = ResumeIdOf(u, doc), !.resume_info = doc])

\* backend/main.py get_user_profile
GetUserProfile(ss, ur, urs, u) ==
    IF ~ss[u].present /\ ur[u].list = <<>>
    THEN Handled(ss, ur, urs, 200, FALSE, NoBody)
    ELSE Handled(ss, ur, urs, 200, FALSE,
                 [NoBody EXCEPT !.resume_id = ss[u].resume_id,
                                !.resume_info = ss[u].resume_info,
                                !.resume_history = ur[u].list])

\* backend/main.py delete_user_resume
DeleteUserResume(ss, ur, urs, u, resume_id) ==
    Handled(IF ss[u].present /\ ss[u].resume_id = resume_id
            THEN [ss EXCEPT ![u] = NoSession] ELSE ss,
            IF ur[u].present
            THEN [ur EXCEPT ![u].list =
                     SelectSeq(@, LAMBDA resume : resume.resume_id # resume_id)]
            ELSE ur,
            urs, 200, FALSE, NoBody)

\* backend/main.py search_jobs
SearchJobs(ss, ur, urs, u, outcome) ==
    IF ~ss[u].present \/ ss[u].resume_info = NoInfo THEN Rejected(ss, ur, urs, 400)
    ELSE IF outcome = "error" THEN Handled(ss, ur, urs, 500, TRUE, NoBody)
    ELSE IF outcome = "none" THEN Handled(ss, ur, urs, 200, TRUE, NoBody)
    ELSE Handled(WithKey(ss, u, "last_search"), ur, urs, 200, TRUE,
                 [NoBody EXCEPT !.query_id = <<"query", u>>])

\* backend/main.py get_similar_jobs
GetSimilarJobs(ss, ur, urs, u, resume_id, outcome) ==
    IF ~OwnsResume(ss[u], resume_id) THEN Rejected(ss, ur, urs, 403)
    ELSE IF outcome = "error" THEN Handled(ss, ur, urs, 500, TRUE, NoBody)
    ELSE Handled(WithKey(ss, u, "similar_jobs"), ur, urs, 200, TRUE,
                 [NoBody EXCEPT !.resume_id = resume_id])

\* backend/main.py analyze_skills
AnalyzeSkills(ss, ur, urs, u, resume_id, outcome) ==
    IF ss[u].resume_info = NoInfo THEN Rejected(ss, ur, urs, 404)
    ELSE IF ~OwnsResume(ss[u], resume_id) THEN Rejected(ss, ur, urs, 403)
    ELSE IF outcome = "error" THEN Handled(ss, ur, urs, 500, TRUE, NoBody)
    ELSE Handled(WithKey(ss, u, "analyses"), ur, urs, 200, TRUE,
                 [NoBody EXCEPT !.resume_info = ss[u].resume_info])

\* backend/main.py generate_report
GenerateReport(ss, ur, urs, u, outcome) ==
    IF outcome = "none" THEN Rejected(ss, ur, urs, 400)
    ELSE IF outcome = "error" THEN Rejected(ss, ur, urs, 500)
    ELSE Handled(IF ss[u].present THEN WithKey(ss, u, "report") ELSE ss,
                 ur, urs, 200, FALSE, NoBody)

\* backend/main.py get_session_data
GetSessionData(ss, ur, urs, u) ==
    Handled(ss, ur, urs, 200, FALSE, [NoBody EXCEPT !.session_data = ss[u]])

\* backend/main.py clear_session
ClearSession(ss, ur, urs, u) ==
    Handled([ss EXCEPT ![u] = NoSession], [ur EXCEPT ![u] = NoResumes], urs,
            200, FALSE, NoBody)

\* backend/main.py analyze_skills_async, up to add_task
AnalyzeSkillsAsync(ss, ur, urs, u, resume_id) ==
    IF ~OwnsResume(ss[u], resume_id) THEN Rejected(ss, ur, urs, 403)
    ELSE Handled(ss, ur, urs, 200, FALSE, [NoBody EXCEPT !.status = "processing"])

\* backend/main.py get_user_resumes
GetUserResumes(ss, ur, urs, u) ==
    Handled(ss, ur, urs, 200, FALSE, [NoBody EXCEPT !.resume_history = ur[u].list])

\* backend/main.py get_task_status
GetTaskStatus(ss, ur, urs, u) ==
    IF ss[u].task = "" THEN Rejected(ss, ur, urs, 404)
    ELSE Handled(ss, ur, urs, 200, FALSE, [NoBody EXCEPT !.status = ss[u].task])

\* backend/main.py update_user_profile
UpdateUserProfile(ss, ur, urs, u) ==
    Handled([ss EXCEPT ![u].present = TRUE, ![u].keys = @ \cup {"profile_data"}],
            ur, urs, 200, FALSE, NoBody)

\* backend/main.py get_admin_stats, behind get_verified_user: the numbers of
\* sessions and of resumes kept
GetAdminStats(ss, ur, urs, u, email_verified) ==
    IF ~email_verified THEN Rejected(ss, ur, urs, 403)
    ELSE Handled(ss, ur, urs, 200, FALSE,
                 [NoBody EXCEPT !.totals =
                     <<Cardinality({v \in DOMAIN ss : ss[v].present}),
                       Cardinality(UNION {{v} \X DOMAIN ur[v].list :
                                             v \in DOMAIN ur})>>])

\* run_analysis, "if user_uid not in session_storage": nothing is written
RunAnalysisCheck(ss, ur, urs, u) == Handled(ss, ur, urs, 0, FALSE, NoBody)

\* run_analysis, up to the "processing" status: a session found missing by
\* the check is set to {}, whatever is there by now; one found present and
\* gone by now is a KeyError, which the except branch leaves alone
RunAnalysisStart(ss, ur, urs, u, found) ==
    Handled(IF ~found
            THEN [ss EXCEPT ![u] = [NoSession EXCEPT !.present = TRUE,
                                                     !.task = "processing"]]
            ELSE IF ~ss[u].present THEN ss
            ELSE [ss EXCEPT ![u].task = "processing"],
            ur, urs, 0, FALSE, NoBody)

\* run_analysis, the "completed" status: reading the task's started_at is a
\* KeyError when the session or the key is gone, and the except branch
\* writes "failed" into a session that is there
RunAnalysisFinish(ss, ur, urs, u) ==
    Handled(IF ~ss[u].present THEN ss
            ELSE IF ss[u].task = "" THEN [ss EXCEPT ![u].task = "failed"]
            ELSE [ss EXCEPT ![u].task = "completed"],
            ur, urs, 0, FALSE, NoBody)

\* main.py upload_resume
RootUploadResume(ss, ur, urs, u, doc, outcome) ==
    IF outcome = "bad_type" THEN Rejected(ss, ur, urs, 400)
    ELSE IF outcome = "error" THEN Rejected(ss, ur, urs, 500)
    ELSE Handled(ss, ur,
                 [urs EXCEPT ![u] = [present |-> TRUE,
                                     resume_id |-> ResumeIdOf(u, doc),
                                     resume_info |-> doc]],
                 200, FALSE,
                 [NoBody EXCEPT !.resume_id = ResumeIdOf(u, doc), !.resume_info = doc])

\* main.py get_user_resume
RootGetUserResume(ss, ur, urs, u) ==
    IF ~urs[u].present THEN Rejected(ss, ur, urs, 404)
    ELSE Handled(ss, ur, urs, 200, FALSE,
                 [NoBody EXCEPT !.resume_id = urs[u].resume_id,
                                !.resume_info = urs[u].resume_info])

\* main.py delete_user_resume
RootDeleteUserResume(ss, ur, urs, u) ==
    Handled(ss, ur, [urs EXCEPT ![u] = NoResume], 200, FALSE, NoBody)

\* main.py get_similar_jobs
RootGetSimilarJobs(ss, ur, urs, u, resume_id, outcome) ==
    IF ~urs[u].present \/ urs[u].resume_id # resume_id THEN Rejected(ss, ur, urs, 403)
    ELSE IF outcome = "error" THEN Handled(ss, ur, urs, 500, TRUE, NoBody)
    ELSE Handled(ss, ur, urs, 200, TRUE, [NoBody EXCEPT !.resume_id = resume_id])

\* main.py analyze_skills
RootAnalyzeSkills(ss, ur, urs, u, resume_id, outcome) ==
    IF ~urs[u].present THEN Rejected(ss, ur, urs, 404)
    ELSE IF urs[u].resume_id # resume_id THEN Rejected(ss, ur, urs, 403)
    ELSE IF outcome = "error" THEN Handled(ss, ur, urs, 500, TRUE, NoBody)
    ELSE Handled(ss, ur, urs, 200, TRUE,
                 [NoBody EXCEPT !.resume_info = urs[u].resume_info])

\* the handler of a request on the dicts
Handle(req, ss, ur, urs) ==
    CASE req.op = "upload_resume" ->
            UploadResume(ss, ur, urs, CurrentUser(req), req.doc, req.outcome)
      [] req.op = "get_user_profile" -> GetUserProfile(ss, ur, urs, CurrentUser(req))
      [] req.op = "delete_user_resume" ->
            DeleteUserResume(ss, ur, urs, CurrentUser(req), req.resume_id)
      [] req.op = "search_jobs" -> SearchJobs(ss, ur, urs, CurrentUser(req), req.outcome)
      [] req.op = "get_similar_jobs" ->
            GetSimilarJobs(ss, ur, urs, CurrentUser(req), req.resume_id, req.outcome)
      [] req.op = "analyze_skills" ->
            AnalyzeSkills(ss, ur, urs, CurrentUser(req), req.resume_id, req.outcome)
      [] req.op = "generate_report" ->
            GenerateReport(ss, ur, urs, CurrentUser(req), req.outcome)
      [] req.op = "get_session_data" -> GetSessionData(ss, ur, urs, CurrentUser(req))
      [] req.op = "clear_session" -> ClearSession(ss, ur, urs, CurrentUser(req))
      [] req.op = "analyze_skills_async" ->
            AnalyzeSkillsAsync(ss, ur, urs, CurrentUser(req), req.resume_id)
      [] req.op = "get_user_resumes" -> GetUserResumes(ss, ur, urs, CurrentUser(req))
      [] req.op = "get_task_status" -> GetTaskStatus(ss, ur, urs, CurrentUser(req))
      [] req.op = "update_user_profile" ->
            UpdateUserProfile(ss, ur, urs, CurrentUser(req))
      [] req.op = "get_admin_stats" ->
            GetAdminStats(ss, ur, urs, CurrentUser(req), req.outcome = "verified")
      [] req.op = "run_analysis_check" -> RunAnalysisCheck(ss, ur, urs, req.user)
      [] req.op = "run_analysis_start" ->
            RunAnalysisStart(ss, ur, urs, req.user, req.outcome = "found")
      [] req.op = "run_analysis_finish" -> RunAnalysisFinish(ss, ur, urs, req.user)
      [] req.op = "root_upload_resume" ->
            RootUploadResume(ss, ur, urs, CurrentUser(req), req.doc, req.outcome)
      [] req.op = "root_get_user_resume" ->
            RootGetUserResume(ss, ur, urs, CurrentUser(req))
      [] req.op = "root_delete_user_resume" ->
            RootDeleteUserResume(ss, ur, urs, CurrentUser(req))
      [] req.op = "root_get_similar_jobs" ->
            RootGetSimilarJobs(ss, ur, urs, CurrentUser(req), req.resume_id, req.outcome)
      [] req.op = "root_analyze_skills" ->
            RootAnalyzeSkills(ss, ur, urs, CurrentUser(req), req.resume_id, req.outcome)

\* the background task of a user after the request: queued by an accepted
\* analyze_skills_async, then at the check of run_analysis, with what it
\* found, then past its first write, then over
TaskAfter(req, out, task) ==
    IF req.op = "analyze_skills_async" /\ out.status = 200 THEN "queued"
    ELSE IF req.op = "run_analysis_check"
    THEN (IF out.ss[req.user].present THEN "found" ELSE "missing")
    ELSE IF req.op = "run_analysis_start"
    THEN (IF out.ss[req.user].present THEN "started" ELSE "")
    ELSE IF req.op = "run_analysis_finish" THEN ""
    ELSE task

\* the users whose current resume was deleted and who have not uploaded since
DeletedAfter(req, out, ss, deleted) ==
    IF req.op = "delete_user_resume" /\ ss[req.user].present
       /\ ss[req.user].resume_id = req.resume_id
    THEN deleted \cup {req.user}
    ELSE IF req.op = "upload_resume" /\ out.status = 200 THEN deleted \ {req.user}
    ELSE deleted

InitSession ==
    /\ NewManager(1)
    /\ IdleFind
    /\ IdleAnalyze
    /\ IdleExtract
    /\ IdleEmbed
    /\ IdleReport
    /\ IdleClassify
    /\ IdleConcurrent
    /\ session_storage = [u \in Users |-> NoSession]
    /\ user_resumes = [u \in Users |-> NoResumes]
    /\ user_resume_storage = [u \in Users |-> NoResume]
    /\ ssTasks = [u \in Users |-> ""]
    /\ ssLast = [req |-> Request("", "", "", NoId, "", ""), status |-> 0,
                 ran |-> FALSE, body |-> NoBody]
    /\ ssDeleted = {}
    /\ ssServed = 0
    /\ IdleRateLimiter

\* the request is handled: the dicts are what the handler left, the response
\* is sent
Respond(req, out) ==
    /\ session_storage' = out.ss
    /\ user_resumes' = out.ur
    /\ user_resume_storage' = out.urs
    /\ ssTasks' = [ssTasks EXCEPT ![req.user] = TaskAfter(req, out, @)]
    /\ ssDeleted' = DeletedAfter(req, out, session_storage, ssDeleted)
    /\ ssLast' = [req |-> req, status |-> out.status, ran |-> out.ran,
                  body |-> out.body]
    /\ UNCHANGED <<askVars, findVars, anVars, exVars, emVars, rpVars, clVars, coVars,
                   rlVars>>

\* the requests served in a run
MaxServed == 5

Serve(req) ==
    /\ ssServed < MaxServed
    /\ ssServed' = ssServed + 1
    /\ Respond(req, Handle(req, session_storage, user_resumes, user_resume_storage))

\* get_current_user: the request carries a token verified for the user
Authenticated(u) == u \in Users

ServiceOutcomes == {"ok", "error"}
SearchOutcomes == {"ok", "none", "error"}
UploadOutcomes == {"ok", "bad_type", "error"}
\* email_verified of the token
TokenOutcomes == {"verified", "unverified"}

ServeUploadResume(u, doc, o) ==
    /\ Authenticated(u)
    /\ Serve(Request("upload_resume", u, u, NoId, doc, o))
ServeGetUserProfile(u) ==
    /\ Authenticated(u)
    /\ Serve(Request("get_user_profile", u, u, NoId, "", "ok"))
ServeDeleteUserResume(u, rid) ==
    /\ Authenticated(u)
    /\ Serve(Request("delete_user_resume", u, u, rid, "", "ok"))
ServeSearchJobs(u, o) ==
    /\ Authenticated(u)
    /\ Serve(Request("search_jobs", u, u, NoId, "", o))
ServeGetSimilarJobs(u, rid, o) ==
    /\ Authenticated(u)
    /\ Serve(Request("get_similar_jobs", u, u, rid, "", o))
ServeAnalyzeSkills(u, rid, o) ==
    /\ Authenticated(u)
    /\ Serve(Request("analyze_skills", u, u, rid, "", o))
ServeGenerateReport(u, o) ==
    /\ Authenticated(u)
    /\ Serve(Request("generate_report", u, u, NoId, "", o))
\* /session/{user_id}: the path may name any user
ServeGetSessionData(u, v) ==
    /\ Authenticated(u)
    /\ Serve(Request("get_session_data", u, v, NoId, "", "ok"))
ServeClearSession(u, v) ==
    /\ Authenticated(u)
    /\ Serve(Request("clear_session", u, v, NoId, "", "ok"))
\* one background task per user at a time
ServeAnalyzeSkillsAsync(u, rid) ==
    /\ Authenticated(u)
    /\ ssTasks[u] = ""
    /\ Serve(Request("analyze_skills_async", u, u, rid, "", "ok"))
RunAnalysisChecks(u) ==
    /\ ssTasks[u] = "queued"
    /\ Serve(Request("run_analysis_check", u, u, NoId, "", "ok"))
RunAnalysisStarts(u) ==
    /\ ssTasks[u] \in {"found", "missing"}
    /\ Serve(Request("run_analysis_start", u, u, NoId, "", ssTasks[u]))
RunAnalysisFinishes(u) ==
    /\ ssTasks[u] = "started"
    /\ Serve(Request("run_analysis_finish", u, u, NoId, "", "ok"))
ServeGetUserResumes(u) ==
    /\ Authenticated(u)
    /\ Serve(Request("get_user_resumes", u, u, NoId, "", "ok"))
ServeGetTaskStatus(u) ==
    /\ Authenticated(u)
    /\ Serve(Request("get_task_status", u, u, NoId, "", "ok"))
ServeUpdateUserProfile(u) ==
    /\ Authenticated(u)
    /\ Serve(Request("update_user_profile", u, u, NoId, "", "ok"))
ServeGetAdminStats(u, o) ==
    /\ Authenticated(u)
    /\ Serve(Request("get_admin_stats", u, u, NoId, "", o))
ServeRootUploadResume(u, doc, o) ==
    /\ Authenticated(u)
    /\ Serve(Request("root_upload_resume", u, u, NoId, doc, o))
ServeRootGetUserResume(u) ==
    /\ Authenticated(u)
    /\ Serve(Request("root_get_user_resume", u, u, NoId, "", "ok"))
ServeRootDeleteUserResume(u) ==
    /\ Authenticated(u)
    /\ Serve(Request("root_delete_user_resume", u, u, NoId, "", "ok"))
ServeRootGetSimilarJobs(u, rid, o) ==
    /\ Authenticated(u)
    /\ Serve(Request("root_get_similar_jobs", u, u, rid, "", o))
ServeRootAnalyzeSkills(u, rid, o) ==
    /\ Authenticated(u)
    /\ Serve(Request("root_analyze_skills", u, u, rid, "", o))

NextSession ==
    \/ \E u \in Users, doc \in Docs, o \in UploadOutcomes : ServeUploadResume(u, doc, o)
    \/ \E u \in Users : ServeGetUserProfile(u)
    \/ \E u \in Users : \E rid \in RequestIds(u) : ServeDeleteUserResume(u, rid)
    \/ \E u \in Users, o \in SearchOutcomes : ServeSearchJobs(u, o)
    \/ \E u \in Users : \E rid \in RequestIds(u), o \in ServiceOutcomes :
          ServeGetSimilarJobs(u, rid, o)
    \/ \E u \in Users : \E rid \in RequestIds(u), o \in ServiceOutcomes :
          ServeAnalyzeSkills(u, rid, o)
    \/ \E u \in Users, o \in SearchOutcomes : ServeGenerateReport(u, o)
    \/ \E u \in Users, v \in Users : ServeGetSessionData(u, v)
    \/ \E u \in Users, v \in Users : ServeClearSession(u, v)
    \/ \E u \in Users : \E rid \in RequestIds(u) : ServeAnalyzeSkillsAsync(u, rid)
    \/ \E u \in Users : RunAnalysisChecks(u)
    \/ \E u \in Users : RunAnalysisStarts(u)
    \/ \E u \in Users : ServeGetUserResumes(u)
    \/ \E u \in Users : ServeGetTaskStatus(u)
    \/ \E u \in Users : ServeUpdateUserProfile(u)
    \/ \E u \in Users, o \in TokenOutcomes : ServeGetAdminStats(u, o)
    \/ \E u \in Users : RunAnalysisFinishes(u)
    \/ \E u \in Users, doc \in Docs, o \in UploadOutcomes :
          ServeRootUploadResume(u, doc, o)
    \/ \E u \in Users : ServeRootGetUserResume(u)
    \/ \E u \in Users : ServeRootDeleteUserResume(u)
    \/ \E u \in Users : \E rid \in RequestIds(u), o \in ServiceOutcomes :
          ServeRootGetSimilarJobs(u, rid, o)
    \/ \E u \in Users : \E rid \in RequestIds(u), o \in ServiceOutcomes :
          ServeRootAnalyzeSkills(u, rid, o)

SpecSession == InitSession /\ [][NextSession]_vars

(***************************************************************************)
(* The requests of backend/main.py that write the resume of a user, and    *)
(* search-jobs, which asks for one: any number of them, in any order.      *)
(***************************************************************************)
Receive(req) ==
    /\ ssServed' = ssServed
    /\ Respond(req, Handle(req, session_storage, user_resumes, user_resume_storage))

ProfileUploadResume(u, doc, o) ==
    /\ Authenticated(u)
    /\ Receive(Request("upload_resume", u, u, NoId, doc, o))
ProfileDeleteUserResume(u, rid) ==
    /\ Authenticated(u)
    /\ Receive(Request("delete_user_resume", u, u, rid, "", "ok"))
ProfileClearSession(u, v) ==
    /\ Authenticated(u)
    /\ Receive(Request("clear_session", u, v, NoId, "", "ok"))
ProfileUpdateUserProfile(u) ==
    /\ Authenticated(u)
    /\ Receive(Request("update_user_profile", u, u, NoId, "", "ok"))
ProfileSearchJobs(u, o) ==
    /\ Authenticated(u)
    /\ Receive(Request("search_jobs", u, u, NoId, "", o))
ProfileGetUserProfile(u) ==
    /\ Authenticated(u)
    /\ Receive(Request("get_user_profile", u, u, NoId, "", "ok"))

NextProfile ==
    \/ \E u \in Users, doc \in Docs, o \in UploadOutcomes :
          ProfileUploadResume(u, doc, o)
    \/ \E u \in Users : \E rid \in RequestIds(u) : ProfileDeleteUserResume(u, rid)
    \/ \E u \in Users, v \in Users : ProfileClearSession(u, v)
    \/ \E u \in Users : ProfileUpdateUserProfile(u)
    \/ \E u \in Users, o \in SearchOutcomes : ProfileSearchJobs(u, o)
    \/ \E u \in Users : ProfileGetUserProfile(u)

SpecProfile == InitSession /\ [][NextProfile]_vars

(***************************************************************************)
(* The rate limiters: RateLimiter.is_allowed behind check_rate_limit in    *)
(* backend/middleware/auth.py, rate_limit_check in middleware/auth.py.  A  *)
(* process runs one of the two applications.  Both read time.time(); the   *)
(* clock of the model does not go back, and calls may share a reading.     *)
(***************************************************************************)
\* the greatest max_requests and window_minutes
MaxLimit == 2
MaxWindowMinutes == 1
\* the clock advances by this many seconds, up to this many times
TickSeconds == 30
MaxTicks == 3

\* the clients without a token, by request.client.host
Hosts == {"10.0.0.1"}
\* check_rate_limit is keyed by the uid, rate_limit_check by the uid or, for
\* a client without a token, by its host
Identifiers(app) == IF app = "backend" THEN Users ELSE Users \cup Hosts

\* len(self.requests[user_id]) >= self.max_requests
LimitReachedM1(n, max_requests) == n > max_requests
LimitReached(n, max_requests) == n >= max_requests

\* what a call gives: the dict and the decision
Decided(requests, allowed) == [requests |-> requests, allowed |-> allowed]

\* RateLimiter.is_allowed, the missing key of a first call being the empty
\* list it is set to
IsAllowed(requests, user_id, current_time, max_requests, window_minutes) ==
    LET window_start == current_time - (window_minutes * 60)
        cleaned == SelectSeq(requests[user_id], LAMBDA req_time : req_time > window_start)
    IN  IF LimitReached(Len(cleaned), max_requests)
        THEN Decided([requests EXCEPT ![user_id] = cleaned], FALSE)
        ELSE Decided([requests EXCEPT ![user_id] = Append(cleaned, current_time)], TRUE)

\* rate_limit_check, raising 429 where is_allowed returns False
RateLimitCheck(store, identifier, current_time, limit, window) ==
    LET cleaned ==
            SelectSeq(store[identifier],
                      LAMBDA timestamp : current_time - timestamp < window)
    IN  IF LimitReached(Len(cleaned), limit)
        THEN Decided([store EXCEPT ![identifier] = cleaned], FALSE)
        ELSE Decided([store EXCEPT ![identifier] = Append(cleaned, current_time)], TRUE)

InitRateLimiter ==
    /\ NewManager(1)
    /\ IdleFind
    /\ IdleAnalyze
    /\ IdleExtract
    /\ IdleEmbed
    /\ IdleReport
    /\ IdleClassify
    /\ IdleConcurrent
    /\ IdleSession
    /\ rlApp \in {"backend", "root"}
    /\ rlMax \in 1..MaxLimit
    /\ rlWindow \in {m * 60 : m \in 1..MaxWindowMinutes}
    /\ rlRequests = [id \in Identifiers(rlApp) |-> <<>>]
    /\ rlNow = 0
    /\ rlLast = [id |-> "", time |-> 0, allowed |-> FALSE]
    /\ rlAllowed = [id \in Identifiers(rlApp) |-> <<>>]

\* the call is decided
Decide(id, out) ==
    /\ rlRequests' = out.requests
    /\ rlLast' = [id |-> id, time |-> rlNow, allowed |-> out.allowed]
    /\ rlAllowed' = IF out.allowed THEN [rlAllowed EXCEPT ![id] = Append(@, rlNow)]
                    ELSE rlAllowed
    /\ UNCHANGED <<rlApp, rlMax, rlWindow, rlNow>>
    /\ UNCHANGED <<askVars, findVars, anVars, exVars, emVars, rpVars, clVars, coVars,
                   ssVars>>

\* check_rate_limit for a request of user_id
CheckRateLimit(user_id) ==
    /\ rlApp = "backend"
    /\ Decide(user_id, IsAllowed(rlRequests, user_id, rlNow, rlMax, rlWindow \div 60))

\* rate_limit_check for a request of a user or of a host
RateLimitChecked(identifier) ==
    /\ rlApp = "root"
    /\ Decide(identifier, RateLimitCheck(rlRequests, identifier, rlNow, rlMax, rlWindow))

\* time passes
ClockTick ==
    /\ rlNow < MaxTicks * TickSeconds
    /\ rlNow' = rlNow + TickSeconds
    /\ UNCHANGED <<rlApp, rlMax, rlWindow, rlRequests, rlLast, rlAllowed>>
    /\ UNCHANGED <<askVars, findVars, anVars, exVars, emVars, rpVars, clVars, coVars,
                   ssVars>>

NextRateLimiter ==
    \/ \E user_id \in Users : CheckRateLimit(user_id)
    \/ \E identifier \in Users \cup Hosts : RateLimitChecked(identifier)
    \/ ClockTick

SpecRateLimiter == InitRateLimiter /\ [][NextRateLimiter]_vars

(***************************************************************************)
(* Properties of LLMManager.ask.                                           *)
(***************************************************************************)
AskDone == askPc \in {"returned", "raised"}

IsInvoke(k) == events[k].ev = "invoke"
FailedInvoke(k) == IsInvoke(k) /\ ~events[k].ok
FailedCreate(k) == events[k].ev = "create" /\ ~events[k].ok

InvokesOf(p) == {k \in 1..Len(events) : IsInvoke(k) /\ events[k].p = p}
SleepsOf(p) == {k \in 1..Len(events) : events[k].ev = "sleep" /\ events[k].p = p}

\* the calls of one request follow the provider list: what may follow what
FollowsInOrder(a, b) ==
    IF a.ev = "sleep" \/ (a.ev = "create" /\ a.ok)
    THEN b.ev = "invoke" /\ b.p = a.p
    ELSE IF a.ev = "create"
    THEN b.ev \in {"create", "invoke"} /\ b.p = a.p + 1
    ELSE IF ~a.ok
    THEN \/ b.ev = "sleep" /\ b.p = a.p
         \/ b.ev \in {"create", "invoke"} /\ b.p = a.p + 1
    ELSE FALSE

\* C1: within one request the providers are used strictly in list order: a
\* call on provider i+1 comes only right after provider i was left (a failed
\* construction, or a failed call with no backoff following it); nothing
\* follows a successful invoke, and ask has returned exactly when its last
\* call is a successful invoke, with that call's text.
C1_OrderAndFirstSuccess ==
    /\ events # <<>> => events[1].p = 1
    /\ \A k \in 1..(Len(events) - 1) : FollowsInOrder(events[k], events[k + 1])
    /\ askPc = "returned" <=>
           (events # <<>> /\ IsInvoke(Len(events)) /\ events[Len(events)].ok)
    /\ askPc = "returned" => askResult.text = events[Len(events)].raw.text

\* a request that fell back from a failed first provider and returned the
\* second provider's text
C1_Witness ==
    /\ askPc = "returned"
    /\ Len(events) >= 3
    /\ FailedInvoke(2)
    /\ events[Len(events)].p = 2
    /\ askResult.text = "t2"

IsFatalOrRateLimited(k) ==
    FailedInvoke(k) /\ ClassifyError(events[k].exc) \in {"fatal_auth", "rate_limit"}

\* C2 as claimed: a provider one of whose calls fails with FatalAuth or
\* RateLimited is invoked exactly once in the request, never sleeps, and the
\* next provider, if there is one, is invoked at least once.
C2_Claimed ==
    \A k \in 1..Len(events) :
        IsFatalOrRateLimited(k) =>
            /\ Cardinality(InvokesOf(events[k].p)) = 1
            /\ SleepsOf(events[k].p) = {}
            /\ (AskDone /\ events[k].p < nProviders) =>
                   InvokesOf(events[k].p + 1) # {}

\* C2 amended: a call that fails with FatalAuth or RateLimited is the last
\* call on that provider in the request (no retry and no sleep follows it),
\* and ask goes on to the next provider, if there is one: its client is
\* constructed unless cached and, unless that construction fails, it is
\* invoked at least once.
C2_NoRetryAfterFatal ==
    \A k \in 1..Len(events) :
        IsFatalOrRateLimited(k) =>
            /\ \A l \in (k + 1)..Len(events) : events[l].p # events[k].p
            /\ (AskDone /\ events[k].p < nProviders) =>
                   \E l \in (k + 1)..Len(events) :
                       /\ events[l].p = events[k].p + 1
                       /\ IsInvoke(l) \/ FailedCreate(l)

\* providers [A, B], A fails with FatalAuth on its first call: B is invoked
C2_Witness ==
    /\ AskDone
    /\ nProviders = 2
    /\ \E k \in 1..Len(events) :
           /\ FailedInvoke(k) /\ events[k].p = 1
           /\ ClassifyError(events[k].exc) = "fatal_auth"
    /\ Cardinality(InvokesOf(1)) = 1
    /\ InvokesOf(2) # {}

OnlyRetryableFailures(p) ==
    /\ InvokesOf(p) # {}
    /\ \A k \in InvokesOf(p) :
           ~events[k].ok /\ ClassifyError(events[k].exc) = "retryable"

Abandoned(p) == p < idx \/ askPc = "raised"

\* C3: a provider that was invoked, whose every call failed with a Retryable
\* error and that has been left, was invoked exactly per_provider_retries + 1
\* times (with per_provider_retries sleeps between the calls); a single such
\* provider with per_provider_retries = 2 makes ask fail after exactly 3 calls.
C3_RetryableAttempts ==
    /\ \A p \in 1..nProviders :
           (askPc # "idle" /\ Abandoned(p) /\ OnlyRetryableFailures(p)) =>
               /\ Cardinality(InvokesOf(p)) = retries + 1
               /\ Cardinality(SleepsOf(p)) = retries
    /\ (nProviders = 1 /\ retries = 2 /\ AskDone /\ OnlyRetryableFailures(1)) =>
           askPc = "raised" /\ Cardinality(InvokesOf(1)) = 3

\* the single provider, per_provider_retries = 2, three failed calls, a raise
C3_Witness ==
    /\ nProviders = 1
    /\ retries = 2
    /\ askPc = "raised"
    /\ OnlyRetryableFailures(1)
    /\ Cardinality(InvokesOf(1)) = 3

\* provider p was tried and left in this request
TriedAndLeft(p) ==
    \E k \in 1..Len(events) :
        /\ events[k].p = p
        /\ FailedCreate(k) \/ FailedInvoke(k)
        /\ \A l \in (k + 1)..Len(events) : events[l].p # p

EventsOf(p) == {k \in 1..Len(events) : events[k].p = p}

\* C23: a provider's client is constructed on the provider's first use and
\* cached: over all the requests create_llm succeeds at most once per
\* provider, exactly for the providers whose slot is filled, and the request
\* that constructs the client invokes it next; a failed construction is the
\* request's only call on that provider (no invoke, no retry), the next
\* provider follows, and the slot stays empty.
C23_LazyCachedConstruction ==
    /\ \A p \in 1..nProviders :
           /\ askHist.creates[p] <= 1
           /\ llms[p] <=> askHist.creates[p] = 1
    /\ \A k \in 1..Len(events) :
           /\ (events[k].ev = "create" /\ events[k].ok) =>
                  /\ k < Len(events) =>
                         IsInvoke(k + 1) /\ events[k + 1].p = events[k].p
                  /\ \A l \in 1..(k - 1) : events[l].p # events[k].p
           /\ FailedCreate(k) =>
                  /\ EventsOf(events[k].p) = {k}
                  /\ ~llms[events[k].p]
                  /\ k < Len(events) => events[k + 1].p = events[k].p + 1

\* the second request constructs the client of the first provider, whose
\* construction failed in the first request, and invokes it
C23_Witness ==
    /\ reqs = 2
    /\ 1 \in askHist.createFailed
    /\ Len(events) >= 2
    /\ events[1].ev = "create" /\ events[1].ok /\ events[1].p = 1
    /\ IsInvoke(2) /\ events[2].p = 1
    /\ askHist.creates[1] = 1

\* C24: a provider left on a FatalAuth or RateLimited error is left for that
\* request only: every request starts at the first provider of the list,
\* the first provider having been left in an earlier request or not, and the
\* list keeps its length.
C24_AbandonedForOneRequest ==
    /\ (askPc = "provider" /\ events = <<>>) => idx = 1
    /\ events # <<>> =>
           /\ events[1].p = 1
           /\ events[1].ev \in {"create", "invoke"}
    /\ DOMAIN llms = 1..nProviders
    /\ askHist.abandoned \subseteq 1..nProviders

\* the first provider failed with a FatalAuth or RateLimited error in the
\* first request, and the second request's first call is on it and succeeds
C24_Witness ==
    /\ reqs = 2
    /\ 1 \in askHist.abandoned
    /\ Len(events) = 1
    /\ IsInvoke(1) /\ events[1].ok /\ events[1].p = 1

IsRetryableFailure(k) ==
    FailedInvoke(k) /\ ClassifyError(events[k].exc) = "retryable"

\* the k-th event is the j-th sleep on its provider
SleepRank(k) == Cardinality({l \in SleepsOf(events[k].p) : l <= k})

\* backoff_factor * (1, 2, 4, ...)
Backoffs == <<1, 2, 4, 8>>

\* C25: the j-th failed call of a provider, when the failure is Retryable
\* and j is at most per_provider_retries, is followed by a sleep of
\* backoff_factor * 2^(j-1) and then by another call of the same provider;
\* no sleep follows a provider's last failed call, a FatalAuth or RateLimited
\* failure or a failed construction, so a provider sleeps at most
\* per_provider_retries times, for backoff_factor * (1, 2, 4, ...).
C25_BackoffSchedule ==
    /\ \A k \in 1..Len(events) :
           /\ (IsRetryableFailure(k) /\ events[k].n <= retries) =>
                  /\ k < Len(events)
                  /\ events[k + 1].ev = "sleep"
                  /\ events[k + 1].p = events[k].p
                  /\ events[k + 1].n = Backoffs[events[k].n]
           /\ (FailedCreate(k) \/ IsFatalOrRateLimited(k)
                   \/ (FailedInvoke(k) /\ events[k].n > retries)) =>
                  (k < Len(events) => events[k + 1].ev # "sleep")
           /\ events[k].ev = "sleep" =>
                  /\ k > 1 /\ IsRetryableFailure(k - 1)
                  /\ events[k].n = Backoffs[SleepRank(k)]
                  /\ k < Len(events) =>
                         IsInvoke(k + 1) /\ events[k + 1].p = events[k].p
    /\ \A p \in 1..nProviders : Cardinality(SleepsOf(p)) <= retries

\* per_provider_retries = 2: the provider slept 1 and 2 and was left after
\* its third failed call without a sleep
C25_Witness ==
    /\ retries = 2
    /\ Len(events) >= 5
    /\ events[2].ev = "sleep" /\ events[2].n = 1
    /\ events[4].ev = "sleep" /\ events[4].n = 2
    /\ FailedInvoke(5) /\ events[5].p = events[4].p
    /\ askPc \in {"provider", "raised"}

\* the calls of invoke and the sleeps of the current request
InvokesMade == Cardinality({k \in 1..Len(events) : events[k].ev = "invoke"})
SleepsMade == Cardinality({k \in 1..Len(events) : events[k].ev = "sleep"})
AskRunning == askPc \in {"provider", "invoke"}
AskOver == askPc \in {"returned", "raised"}

\* C35: a request makes at most N * (per_provider_retries + 1) calls of
\* invoke and at most N * per_provider_retries sleeps, N the number of
\* providers, and a request that has started returns a text or raises.
C35_AskTerminates ==
    /\ [](/\ InvokesMade <= nProviders * (retries + 1)
          /\ SleepsMade <= nProviders * retries)
    /\ (AskRunning ~> AskOver)

\* a request on two providers with two retries used all its calls and all
\* its sleeps, and raised
C35_Witness ==
    /\ askPc = "raised"
    /\ nProviders = 2
    /\ retries = 2
    /\ InvokesMade = 6
    /\ SleepsMade = 4

(***************************************************************************)
(* Properties of analyze_resume_vs_jobs.                                   *)
(***************************************************************************)
\* the outcome of job i: the orchestrator call raised, or the text it
\* returned did not give a parsed object
GenerationFailed(i) == anOutcomes[i].raised
ParsedObject(ex) == ex.ok /\ ex.val[1] = "{"
ExtractionFailed(i) ==
    ~anOutcomes[i].raised /\ ~ParsedObject(ExtractAnalysis(anOutcomes[i].text))
JobFailed(i) == GenerationFailed(i) \/ ExtractionFailed(i)

HasReason(rec) == rec.analysis_error \notin {None, ""}

\* C5: analyze_resume_vs_jobs never raises; when it has returned, the list
\* is as long as the job list and the record of every job whose generation
\* or extraction failed is a fallback record.
C5_NeverRaises ==
    /\ anPc # "raised"
    /\ anPc = "returned" =>
           /\ Len(analyses) = Len(anJobs)
           /\ \A i \in 1..Len(analyses) : JobFailed(i) => analyses[i].fallback

C7_ReasonIffFailed ==
    /\ \A i \in 1..Len(analyses) : HasReason(analyses[i]) <=> JobFailed(i)
    /\ ( /\ Len(anJobs) = 3
         /\ Len(anOutcomes) = 3
         /\ Cardinality({i \in 1..3 : ExtractionFailed(i)}) = 2
         /\ Cardinality({i \in 1..3 : JobFailed(i)}) = 2 ) =>
           /\ Len(analyses) = 3
           /\ Cardinality({i \in 1..3 : HasReason(analyses[i])}) = 2

\* a "{" with a "}" after it and no brace in between
HasBraceSpan(t) ==
    \E i, j \in 1..Len(t) :
        /\ i < j
        /\ t[i] = "{"
        /\ t[j] = "}"
        /\ \A k \in (i + 1)..(j - 1) : t[k] \notin {"{", "}"}

\* C8: a generated text with no balanced brace span ends as a fallback
\* record with a non-empty reason for its job; no exception leaves
\* analyze_resume_vs_jobs at that job.
C8_NoSpanIsFallback ==
    \A i \in 1..Len(anOutcomes) :
        (~anOutcomes[i].raised /\ ~HasBraceSpan(anOutcomes[i].text)) =>
            /\ i <= Len(analyses)
            /\ analyses[i].fallback
            /\ HasReason(analyses[i])

\* the wait for job i's generation ended on a timeout
TimedOut(i) ==
    anOutcomes[i].raised /\ anOutcomes[i].exc.cls \in {"APITimeoutError", "ReadTimeout"}

\* C22: a job whose generation is given up on a timeout is recorded as a
\* fallback record with a non-empty reason, and the batch goes on: no
\* exception leaves analyze_resume_vs_jobs, which returns one record per job.
C22_TimedOutJobFallsBack ==
    (\E i \in 1..Len(anOutcomes) : TimedOut(i)) =>
        /\ anPc # "raised"
        /\ \A i \in 1..Len(anOutcomes) :
               TimedOut(i) =>
                   /\ i <= Len(analyses)
                   /\ analyses[i].fallback
                   /\ HasReason(analyses[i])
        /\ anPc = "returned" => Len(analyses) = Len(anJobs)

\* C33 as claimed: when the jobs find_similar_jobs returned are analysed,
\* the job_info of every record has the title, company, location, apply_link
\* and similarity_score of the job it was made for, and the prompt sent for
\* a job was built from that job's title, company, description and location.
C33_TaggedWithItsJob ==
    (findPc = "returned" /\ anPc # "idle") =>
        /\ \A i \in 1..Len(analyses) :
               /\ analyses[i].job_info.title = findResult[i].title
               /\ analyses[i].job_info.company = findResult[i].company
               /\ analyses[i].job_info.location = findResult[i].location
               /\ analyses[i].job_info.apply_link = findResult[i].apply_link
               /\ analyses[i].job_info.similarity_score = findResult[i].similarity_score
        /\ \A i \in 1..Len(anPrompts) :
               /\ anPrompts[i].job_title = findResult[i].title
               /\ anPrompts[i].job_company = findResult[i].company
               /\ anPrompts[i].job_description = findResult[i].description
               /\ anPrompts[i].job_location = findResult[i].location

\* a text in lower case; text a occurring somewhere in text b
InLowerCase(s) ==
    [i \in 1..Len(s) |->
        IF \E k \in DOMAIN UpperLetters : UpperLetters[k] = s[i]
        THEN LowerLetters[CHOOSE k \in DOMAIN UpperLetters : UpperLetters[k] = s[i]]
        ELSE s[i]]
OccursIn(a, b) == \E i, j \in 0..Len(b) : i <= j /\ SubSeq(b, i + 1, j) = a

\* the job's description, a space, the job's title (each empty when absent)
CombinedText(job) ==
    CharsOf(IF "description" \in DOMAIN job THEN job.description ELSE "")
        \o <<" ">> \o CharsOf(IF "title" \in DOMAIN job THEN job.title ELSE "")

\* the skills, in their order, whose lower case form occurs in the text
RECURSIVE SkillsIn(_, _)
SkillsIn(skills, text) ==
    IF skills = <<>> THEN <<>>
    ELSE (IF OccursIn(InLowerCase(CharsOf(Head(skills))), InLowerCase(text))
          THEN <<Head(skills)>> ELSE <<>>) \o SkillsIn(Tail(skills), text)

\* str(e) of the exception that made job i's record a fallback record
FailureReason(i) ==
    IF anOutcomes[i].raised THEN StrOfExc(anOutcomes[i].exc)
    ELSE IF ~ExtractAnalysis(anOutcomes[i].text).ok THEN ValueErrorReason
    ELSE TypeErrorReason

\* C30: in a fallback record the matching skills are the resume's skills, in
\* the resume's order, whose lower case form occurs in the lower case text of
\* the job's description and title; missing_skills and skill_level_gaps hold
\* the manual-review placeholder; analysis_error is the failure's reason.
C30_FallbackRecordFields ==
    \A i \in 1..Len(analyses) :
        analyses[i].fallback =>
            /\ analyses[i].matching_skills =
                   SkillsIn(anResume.extracted_skills, CombinedText(anJobs[i]))
            /\ analyses[i].missing_skills = <<"Analysis failed - manual review needed">>
            /\ analyses[i].skill_level_gaps = <<"Analysis failed - manual review needed">>
            /\ analyses[i].analysis_error = FailureReason(i)

\* a failed extraction left a fallback record whose matching skills are two
\* of the resume's four, matched in another case, and one whose only match
\* is in the job's title
C30_Witness ==
    /\ anResume.extracted_skills = <<"Sql", "DEV", "Ops", "Python">>
    /\ \E i, j \in 1..Len(analyses) :
           /\ analyses[i].fallback
           /\ analyses[i].matching_skills = <<"DEV", "Python">>
           /\ analyses[i].analysis_error = ValueErrorReason
           /\ analyses[j].fallback
           /\ anJobs[j] = [title |-> "Ops"]
           /\ analyses[j].matching_skills = <<"Ops">>

(***************************************************************************)
(* Properties of find_similar_jobs.                                        *)
(***************************************************************************)
\* C11: the jobs returned are the matches with later occurrences of a seen
\* id removed, in the order of the matches, cut to the first top_k: job n is
\* the job_info of the n-th first occurrence, there are
\* min(top_k, number of distinct ids) jobs, no two share a job_id, and 5
\* matches with one duplicate id and top_k >= 4 give exactly 4 jobs.
C11_DedupedInOrder ==
    findPc = "returned" =>
        /\ Len(findResult) =
               IF UniqueCount(findMatches) < findArgs.top_k
               THEN UniqueCount(findMatches) ELSE findArgs.top_k
        /\ \A n \in 1..Len(findResult) :
               findResult[n] = JobInfo(findMatches[NthUnique(findMatches, n)])
        /\ \A a, b \in 1..Len(findResult) :
               findResult[a].job_id = findResult[b].job_id => a = b
        /\ (Len(findMatches) = 5 /\ UniqueCount(findMatches) = 4
                /\ findArgs.top_k >= 4) => Len(findResult) = 4

\* C12: a call for a resume id whose vector is not in the index ends with
\* the error "Resume not found in index" raised to the caller and no query
\* issued to the index; a call that returned found its vector there.
C12_MissingVectorRaises ==
    /\ (findPc # "idle" /\ findArgs.resume_id \notin indexIds) =>
           /\ findPc = "raised"
           /\ findRaised = ResumeNotFound
           /\ ~findQuery.issued
           /\ findResult = <<>>
    /\ findPc = "returned" => findArgs.resume_id \in indexIds /\ findQuery.issued

\* a call for a resume that was never stored, while another one is
C12_Witness ==
    /\ findPc = "raised"
    /\ findArgs.resume_id = "resume_u2"
    /\ indexIds = {"resume_u1"}
    /\ ~findQuery.issued

\* the filter's constraints on a key
ConstraintsOn(key) == {k \in 1..Len(findQuery.filter) : findQuery.filter[k][1] = key}

\* C27: a call that returns has issued its similarity query; the filter
\* requires type = job, holds an equality constraint on query_id, with the
\* value passed, if and only if a query_id was passed, and nothing else; the
\* candidate count requested is max(10, 2 * top_k).
C27_QueryFilter ==
    findPc = "returned" =>
        /\ findQuery.issued
        /\ \E k \in ConstraintsOn("type") : findQuery.filter[k][2] = "job"
        /\ ConstraintsOn("query_id") # {} <=> findArgs.query_id # None
        /\ \A k \in ConstraintsOn("query_id") :
               findQuery.filter[k][2] = findArgs.query_id
        /\ \A k \in 1..Len(findQuery.filter) :
               findQuery.filter[k][1] \in {"type", "query_id"}
        /\ findQuery.top_k >= 10
        /\ findQuery.top_k >= 2 * findArgs.top_k
        /\ findQuery.top_k \in {10, 2 * findArgs.top_k}

(***************************************************************************)
(* Properties of _embed_text.                                              *)
(***************************************************************************)
OkCalls == {k \in 1..Len(emCalls) : emCalls[k].outcome = "ok"}
\* the k-th call that was answered
NthOk(n) == CHOOSE k \in OkCalls : Cardinality({j \in OkCalls : j <= k}) = n
\* a vector as the floats of the list returned
AsFloats(v) == [j \in 1..Len(v) |-> <<v[j], 1>>]
\* the sum of coordinate j over the first n answered calls
RECURSIVE SumOk(_, _)
SumOk(j, n) == IF n = 0 THEN 0 ELSE SumOk(j, n - 1) + emCalls[NthOk(n)].vec[j]
\* result is the element-wise mean of the vectors of the k answered calls
IsMeanOfOk(result, k) ==
    /\ Len(result) = 2
    /\ Cardinality(OkCalls) = k
    /\ \A j \in 1..2 : result[j][1] * k = SumOk(j, k) * result[j][2]
NotBlank(t) == t # NoneText /\ Strip(t) # <<>>

\* C13 as claimed: for a text that is not blank and shorter than chunk_size,
\* the service is called exactly once, with that text, and the list
\* returned is the vector of that call.
C13_Claimed ==
    (emPc = "returned" /\ NotBlank(emText) /\ Len(emText) < emChunkSize) =>
        /\ Len(emCalls) = 1
        /\ emCalls[1].chunk = emText
        /\ emResult = AsFloats(emCalls[1].vec)

\* C13 amended: for a text whose stripped form is not empty and at most
\* chunk_size long, every call to the service is made with the stripped
\* text, the last call is the only one answered (the ones before it timed
\* out), and the list returned is the vector of that call, unchanged.
C13_SingleChunkUnchanged ==
    (emPc = "returned" /\ NotBlank(emText) /\ Len(Strip(emText)) <= emChunkSize) =>
        /\ emCalls # <<>>
        /\ \A k \in 1..Len(emCalls) :
               /\ emCalls[k].chunk = Strip(emText)
               /\ emCalls[k].outcome = IF k = Len(emCalls) THEN "ok" ELSE "timeout"
        /\ emResult = AsFloats(emCalls[Len(emCalls)].vec)

\* a text with a leading blank, embedded with one call on its stripped form
C13_Witness ==
    /\ emPc = "returned"
    /\ emText = <<" ", "a">>
    /\ emChunkSize = 3
    /\ Len(emCalls) = 1
    /\ emCalls[1].chunk = <<"a">>
    /\ emResult = <<<<6, 1>>, <<2, 1>>>>

\* C14 as claimed: with k >= 2 chunks the list returned is the element-wise
\* mean of the k chunk vectors; for a text that is not blank and exactly
\* twice chunk_size long the two chunks are the two halves of the text.
C14_Claimed ==
    /\ (emPc = "returned" /\ Len(emChunks) >= 2) =>
           IsMeanOfOk(emResult, Len(emChunks))
    /\ (emPc = "returned" /\ NotBlank(emText) /\ Len(emText) = 2 * emChunkSize) =>
           /\ IsMeanOfOk(emResult, 2)
           /\ emCalls[NthOk(1)].chunk = SubSeq(emText, 1, emChunkSize)
           /\ emCalls[NthOk(2)].chunk = SubSeq(emText, emChunkSize + 1, 2 * emChunkSize)

\* C14 amended: with k >= 2 chunks the list returned is the element-wise
\* mean of the k chunk vectors, one answered call per chunk in order; for a
\* text whose stripped form is exactly twice chunk_size long the two chunks
\* are the two halves of the stripped text.
C14_MeanOfChunks ==
    /\ (emPc = "returned" /\ Len(emChunks) >= 2) =>
           /\ IsMeanOfOk(emResult, Len(emChunks))
           /\ \A n \in 1..Len(emChunks) : emCalls[NthOk(n)].chunk = emChunks[n]
    /\ (emPc = "returned" /\ NotBlank(emText)
           /\ Len(Strip(emText)) = 2 * emChunkSize) =>
           /\ IsMeanOfOk(emResult, 2)
           /\ emCalls[NthOk(1)].chunk = SubSeq(Strip(emText), 1, emChunkSize)
           /\ emCalls[NthOk(2)].chunk =
                  SubSeq(Strip(emText), emChunkSize + 1, 2 * emChunkSize)

\* a text of twice chunk_size whose halves got different vectors
C14_Witness ==
    /\ emPc = "returned"
    /\ emText = <<"a", "a", " ", "a">>
    /\ emChunkSize = 2
    /\ Len(emCalls) = 2
    /\ emCalls[1].vec # emCalls[2].vec
    /\ emResult = <<<<3, 1>>, <<3, 1>>>>

\* C15: for None, the empty text and a text of blanks only, _embed_text
\* returns the empty list and the embedding service is never called.
C15_BlankGivesEmpty ==
    (emPc # "idle" /\ ~NotBlank(emText)) =>
        /\ emPc = "returned"
        /\ emResult = <<>>
        /\ emCalls = <<>>

\* a text of two blanks gave the empty list
C15_Witness ==
    /\ emPc = "returned"
    /\ emText = <<" ", " ">>
    /\ emResult = <<>>
    /\ emCalls = <<>>

ReadTimeouts ==
    {"urllib3.exceptions.ReadTimeoutError", "requests.exceptions.ReadTimeout"}

\* C16: a call is a retry (attempt > 1) only right after a timed-out call on
\* the same chunk, and a first attempt follows only an answered call; no
\* chunk gets more than 4 attempts; the timeout of a 4th attempt is raised,
\* an earlier timeout is not; any other error is raised at once, no call
\* following it.
C16_RetryOnTimeoutOnly ==
    /\ \A k \in 1..Len(emCalls) :
           /\ emCalls[k].attempt \in 1..4
           /\ emCalls[k].attempt > 1 =>
                  /\ emCalls[k - 1].outcome = "timeout"
                  /\ emCalls[k - 1].chunk = emCalls[k].chunk
                  /\ emCalls[k - 1].attempt = emCalls[k].attempt - 1
           /\ (k > 1 /\ emCalls[k].attempt = 1) => emCalls[k - 1].outcome = "ok"
           /\ emCalls[k].outcome = "error" =>
                  k = Len(emCalls) /\ emPc = "raised" /\ emRaised \notin ReadTimeouts
           /\ (emCalls[k].outcome = "timeout" /\ emCalls[k].attempt = 4) =>
                  k = Len(emCalls) /\ emPc = "raised" /\ emRaised \in ReadTimeouts
           /\ (emCalls[k].outcome = "timeout" /\ emCalls[k].attempt < 4) =>
                  k < Len(emCalls) \/ emPc = "chunk"
    /\ emPc = "raised" =>
           emCalls # <<>> /\ emCalls[Len(emCalls)].outcome # "ok"

\* the second chunk timed out four times and the timeout was raised
C16_Witness ==
    /\ emPc = "raised"
    /\ emRaised = "requests.exceptions.ReadTimeout"
    /\ Len(emCalls) = 5
    /\ emCalls[1].outcome = "ok"
    /\ emCalls[5].attempt = 4

\* the call got as far as cutting its text into chunks
Chunked == emPc # "idle" /\ NotBlank(emText)

RECURSIVE Concat(_)
Concat(ss) == IF ss = <<>> THEN <<>> ELSE Head(ss) \o Concat(Tail(ss))

\* the j-th piece of chunk_size characters of the stripped text
PieceCount == (Len(StrippedText(emText)) + emChunkSize - 1) \div emChunkSize
Piece(j) ==
    SubSeq(StrippedText(emText), (j - 1) * emChunkSize + 1,
           IF j * emChunkSize < Len(StrippedText(emText))
           THEN j * emChunkSize ELSE Len(StrippedText(emText)))
IsBlank(s) == \A i \in 1..Len(s) : s[i] \in Whitespace
Kept == {j \in 1..PieceCount : ~IsBlank(Piece(j))}
\* the k-th smallest element of a set of numbers
KthOf(S, k) == CHOOSE j \in S : Cardinality({l \in S : l <= j}) = k

\* C26 as claimed: every chunk is at most chunk_size long and the chunks,
\* concatenated in order, are the source text.
C26_Claimed ==
    Chunked =>
        /\ \A k \in 1..Len(emChunks) : Len(emChunks[k]) <= emChunkSize
        /\ Concat(emChunks) = emText

\* C26: the chunks are, in order, the pieces of at most chunk_size characters
\* that the stripped source text falls into, contiguous and not overlapping,
\* the pieces of whitespace only left out: with no such piece the chunks
\* concatenated are the stripped text.
C26_ChunksOfStrippedText ==
    Chunked =>
        /\ Len(emChunks) = Cardinality(Kept)
        /\ \A k \in 1..Len(emChunks) :
               /\ emChunks[k] = Piece(KthOf(Kept, k))
               /\ Len(emChunks[k]) <= emChunkSize
               /\ Len(emChunks[k]) >= 1
        /\ Kept = 1..PieceCount => Concat(emChunks) = StrippedText(emText)

\* a text cut into several chunks, a piece of whitespace left out
C26_Witness ==
    /\ Chunked
    /\ Len(emChunks) >= 2
    /\ Len(emChunks) < PieceCount
    /\ emText # StrippedText(emText)

(***************************************************************************)
(* Properties of generate_overall_report.                                  *)
(***************************************************************************)
ReportReturned == rpPc = "returned" /\ rpReport.error = ""

\* the declared match value of the k-th record of the call
DeclaredAt(k) ==
    IF "job_match_assessment" \in DOMAIN rpAnalyses[k].items
       /\ "overall_match_percentage"
              \in DOMAIN rpAnalyses[k].items["job_match_assessment"].items
    THEN rpAnalyses[k].items["job_match_assessment"].items["overall_match_percentage"]
    ELSE JStr(<<>>)

IsPercentageString(v) ==
    v.t = "str" /\ "%" \in Range(v.s) /\ IsIntLiteral(RemovePercent(v.s))

\* the records whose value is a plain integer or a percentage string
PlainOrPercentage == {k \in 1..Len(rpAnalyses) :
                         DeclaredAt(k).t = "int" \/ IsPercentageString(DeclaredAt(k))}

\* the records whose value is a number, a boolean or a percentage string
NumberOrPercentage == {k \in 1..Len(rpAnalyses) :
                          \/ DeclaredAt(k).t \in {"int", "float", "bool"}
                          \/ IsPercentageString(DeclaredAt(k))}

\* the integer of a value: a float loses its fraction, true is 1
IntegerAt(k) ==
    IF DeclaredAt(k).t = "str" THEN IntOfStr(RemovePercent(DeclaredAt(k).s))
    ELSE DeclaredAt(k).n

RECURSIVE SumOver(_)
SumOver(K) == IF K = {} THEN 0 ELSE IntegerAt(Min(K)) + SumOver(K \ {Min(K)})

\* the string is the one-decimal percentage nearest to s / n
IsOneDecimalOf(str, s, n) ==
    \E t \in 0..1000 :
       /\ str = DigitsOf(t \div 10) \o <<".", ToString(t % 10), "%">>
       /\ 2 * (10 * s - t * n) <= n
       /\ 2 * (t * n - 10 * s) <= n

AverageOver(K) ==
    IF K = {} THEN rpReport.average_match_percentage = <<"0", ".", "0", "%">>
    ELSE IsOneDecimalOf(rpReport.average_match_percentage, SumOver(K), Cardinality(K))

EightySixtyForty ==
    /\ Len(rpAnalyses) = 3
    /\ DeclaredAt(1) = JInt(80)
    /\ DeclaredAt(2) = JInt(60)
    /\ DeclaredAt(3) = JInt(40)

\* C17 as claimed: the average of a report is the one-decimal percentage of
\* the mean of the values that are plain integers or percentage strings, the
\* other records left out of sum and count, and "0.0%" when there is no such
\* value.
C17_Claimed == ReportReturned => AverageOver(PlainOrPercentage)

\* C17: the average of a report is the one-decimal percentage of the mean of
\* the values that are integers, floats cut to their whole part, booleans or
\* percentage strings, divided by the number of these values and not of the
\* records; it is "0.0%" when there is no such value, and "60.0%" for the
\* match values 80, 60, 40.
C17_AverageOfParsed ==
    ReportReturned =>
        /\ AverageOver(NumberOrPercentage)
        /\ EightySixtyForty =>
               rpReport.average_match_percentage = <<"6", "0", ".", "0", "%">>

\* a report over parsed and unparsed values, a percentage string among them
C17_Witness ==
    /\ ReportReturned
    /\ Cardinality(NumberOrPercentage) >= 2
    /\ Cardinality(NumberOrPercentage) < Len(rpAnalyses)
    /\ \E k \in NumberOrPercentage : DeclaredAt(k).t = "str"
    /\ rpReport.average_match_percentage # <<"0", ".", "0", "%">>

\* C18 as claimed: a report's readiness is "good" when the average match is
\* 70 or more, "needs_improvement" when it is 50 or more and below 70,
\* "significant_gaps" when it is below 50.
C18_ReadinessTiers ==
    (ReportReturned /\ NumberOrPercentage # {}) =>
        LET s == SumOver(NumberOrPercentage)
            n == Cardinality(NumberOrPercentage)
        IN /\ s >= 70 * n => rpReport.career_readiness = "good"
           /\ (50 * n <= s /\ s < 70 * n) =>
                  rpReport.career_readiness = "needs_improvement"
           /\ s < 50 * n => rpReport.career_readiness = "significant_gaps"

\* C19 as claimed: a call with a list that is not empty returns a report,
\* whose job count is the number of records and which holds all the records.
C19_ReportForEveryList ==
    (rpPc # "idle" /\ rpAnalyses # <<>>) =>
        /\ ReportReturned
        /\ rpReport.total_jobs_analyzed = Len(rpAnalyses)
        /\ rpReport.job_analyses = rpAnalyses

\* the skill list of the k-th record of the call under key
SkillsAt(k, key) ==
    IF "skill_gap_analysis" \in DOMAIN rpAnalyses[k].items
       /\ key \in DOMAIN rpAnalyses[k].items["skill_gap_analysis"].items
    THEN rpAnalyses[k].items["skill_gap_analysis"].items[key].elems
    ELSE <<>>

\* where a skill occurs (record, position), how often, and whether its
\* first occurrence comes before every occurrence of another skill
Occurrences(key, x) ==
    UNION { { <<k, i>> : i \in {i \in 1..Len(SkillsAt(k, key)) :
                                   SkillsAt(k, key)[i] = x} } :
            k \in 1..Len(rpAnalyses) }
Frequency(key, x) == Cardinality(Occurrences(key, x))
SeenFirst(key, x, y) ==
    \E o \in Occurrences(key, x) :
        \A q \in Occurrences(key, y) :
            o[1] < q[1] \/ (o[1] = q[1] /\ o[2] < q[2])
Ahead(key, x, y) ==
    \/ Frequency(key, x) > Frequency(key, y)
    \/ Frequency(key, x) = Frequency(key, y) /\ SeenFirst(key, x, y)
SkillsUnder(key) ==
    UNION { Range(SkillsAt(k, key)) : k \in 1..Len(rpAnalyses) }

\* top is the list of the ten most frequent skills under key
IsTopTen(top, key) ==
    /\ Len(top) <= 10
    /\ Range(top) \subseteq SkillsUnder(key)
    /\ \A i, j \in 1..Len(top) : i < j => Ahead(key, top[i], top[j])
    /\ \A x \in SkillsUnder(key) \ Range(top) :
           /\ Len(top) = 10
           /\ \A i \in 1..Len(top) : Ahead(key, top[i], x)

\* C31: the missing-skill list and the matching-skill list of a report each
\* hold at most ten distinct skills of the records, a more frequent skill
\* before a less frequent one and, of two equally frequent ones, the one
\* seen first before the other; a skill is left out only behind ten that
\* go ahead of it; top_skills_to_develop is the first five missing skills.
C31_TopTenSkills ==
    ReportReturned =>
        /\ IsTopTen(rpReport.most_common_missing_skills, "missing_skills")
        /\ IsTopTen(rpReport.strongest_skills, "matching_skills")
        /\ rpReport.top_skills_to_develop =
               SubSeq(rpReport.most_common_missing_skills, 1,
                      Min({5, Len(rpReport.most_common_missing_skills)}))

\* a report over twelve missing skills, one found three times and one twice
C31_Witness ==
    /\ ReportReturned
    /\ Cardinality(SkillsUnder("missing_skills")) = 12
    /\ rpReport.most_common_missing_skills =
           <<"azure", "sql", "docker", "aws", "java", "go", "rust",
             "react", "kafka", "redis">>
    /\ rpReport.top_skills_to_develop = <<"azure", "sql", "docker", "aws", "java">>
    /\ rpReport.strongest_skills = <<"python", "sql">>

\* the fallback records of the call
FallbackAt == {k \in 1..Len(rpAnalyses) :
                  DeclaredAt(k) = JStr(UnableToCalculate)}

\* C36: the average of a report is the one over the records that are no
\* fallback records and whose value is parsed, whatever fallback records the
\* list holds; a list of fallback records only gives "0.0%" and the
\* readiness "significant_gaps".
C36_FallbacksLeftOut ==
    ReportReturned =>
        /\ AverageOver(NumberOrPercentage \ FallbackAt)
        /\ FallbackAt = 1..Len(rpAnalyses) =>
               /\ rpReport.average_match_percentage = <<"0", ".", "0", "%">>
               /\ rpReport.career_readiness = "significant_gaps"

\* a report over two fallback records and one analysis with the value 80
C36_Witness ==
    /\ ReportReturned
    /\ Len(rpAnalyses) = 3
    /\ Cardinality(FallbackAt) = 2
    /\ rpAnalyses[1] = FallbackAnalysis
    /\ DeclaredAt(2) = JInt(80)
    /\ rpReport.average_match_percentage = <<"8", "0", ".", "0", "%">>

\* C32 as claimed: in every report the readiness is "good" exactly when the
\* first next step is the well-positioned message, "needs_improvement"
\* exactly when it is the message about 2-3 key missing skills, and
\* "significant_gaps" exactly when it is the foundational-skills message.
C32_StepFollowsTier ==
    ReportReturned =>
        /\ rpReport.career_readiness = "good" <=>
               rpReport.first_next_step =
                   "You're well-positioned for these roles - consider applying!"
        /\ rpReport.career_readiness = "needs_improvement" <=>
               rpReport.first_next_step =
                   "Develop 2-3 key missing skills to improve job readiness"
        /\ rpReport.career_readiness = "significant_gaps" <=>
               rpReport.first_next_step =
                   "Focus on building foundational skills before applying to these positions"

(***************************************************************************)
(* Properties of _classify_error.                                          *)
(***************************************************************************)
AuthSignal == clExc.status \in {401, 403} \/ clExc.words \cap AuthWords # {}
RateSignal == clExc.status = 429 \/ clExc.words \cap RateWords # {}
TransientSignal ==
    \/ clExc.status >= 500 /\ clExc.status <= 599
    \/ clExc.words \cap TransientWords # {}

\* C20 as claimed: an error with a 5xx status or a message that mentions a
\* timeout or a connection failure is classified retryable, and so is an
\* error with no recognised signal.
C20_Claimed ==
    (clPc = "returned" /\ (TransientSignal \/ ~(AuthSignal \/ RateSignal))) =>
        clType = "retryable"

\* C20: an error with a 5xx status or a message that mentions a timeout or a
\* connection failure, and with no auth and no rate-limit signal, is
\* classified retryable, the class on which ask does not leave the provider;
\* so is an error with no recognised signal.
C20_TransientRetryable ==
    (clPc = "returned" /\ ~AuthSignal /\ ~RateSignal) =>
        /\ clType = "retryable"
        /\ ~SwitchesProvider(clType)

\* a 503 whose message mentions a timeout was classified retryable
C20_Witness ==
    /\ clPc = "returned"
    /\ clExc.status = 503
    /\ clExc.words = {"timeout"}
    /\ clType = "retryable"

\* C34: every error gets one of the three classes, by a fixed precedence:
\* fatal_auth when it carries an auth signal, whatever else it carries;
\* otherwise rate_limit when it carries a rate-limit signal; otherwise
\* retryable.
C34_FixedPrecedence ==
    clPc = "returned" =>
        /\ clType \in {"fatal_auth", "rate_limit", "retryable"}
        /\ clType = "fatal_auth" <=> AuthSignal
        /\ clType = "rate_limit" <=> (~AuthSignal /\ RateSignal)
        /\ clType = "retryable" <=> (~AuthSignal /\ ~RateSignal)

\* a 401 whose message mentions a rate limit and a timeout was classified
\* fatal_auth
C34_Witness ==
    /\ clPc = "returned"
    /\ clExc.status = 401
    /\ clExc.words = {"rate limit", "timeout"}
    /\ clType = "fatal_auth"

(***************************************************************************)
(* Properties of ask under concurrent calls.                               *)
(***************************************************************************)
\* C21: on one manager create_llm returns at most one client per provider,
\* and every call of a provider, by whichever thread, is made on that one
\* cached client.
C21_OneClientPerProvider ==
    /\ \A p \in 1..Len(coMade) : coMade[p] <= 1
    /\ \A u \in coUsed : u[2] = 1 /\ coLlms[u[1]] = 1

(***************************************************************************)
(* Properties of the extraction.                                           *)
(***************************************************************************)
\* the closing brace of the span opened before position i, braces counted
\* outside string literals only (depth: open braces, inStr: inside a string,
\* where a backslash escapes the next character); 0 when the span never closes
RECURSIVE SpanEnd(_, _, _, _)
SpanEnd(s, i, depth, inStr) ==
    IF i > Len(s) THEN 0
    ELSE IF inStr
    THEN IF s[i] = BS THEN SpanEnd(s, i + 2, depth, TRUE)
         ELSE SpanEnd(s, i + 1, depth, s[i] # DQ)
    ELSE IF s[i] = DQ THEN SpanEnd(s, i + 1, depth, TRUE)
    ELSE IF s[i] = "{" THEN SpanEnd(s, i + 1, depth + 1, FALSE)
    ELSE IF s[i] = "}"
    THEN IF depth = 1 THEN i ELSE SpanEnd(s, i + 1, depth - 1, FALSE)
    ELSE SpanEnd(s, i + 1, depth, FALSE)

BalancedStarts(s) ==
    {i \in 1..Len(s) : s[i] = "{" /\ SpanEnd(s, i + 1, 1, FALSE) > 0}
FirstBalancedSpan(s) ==
    SubSeq(s, Min(BalancedStarts(s)), SpanEnd(s, Min(BalancedStarts(s)) + 1, 1, FALSE))

DirectParseFailed == ~JsonLoads(ExtractJsonFromResponse(exResponse)).ok

\* C28: when the direct parse fails and the first balanced brace span of the
\* raw text, braces inside string literals not counted, is a JSON object,
\* the extraction returns that whole span parsed, not a part of it.
C28_FirstBalancedSpan ==
    ( /\ exPc = "done"
      /\ DirectParseFailed
      /\ BalancedStarts(exResponse) # {}
      /\ IsDict(JsonLoads(FirstBalancedSpan(exResponse))) ) =>
        exResult = Single("analysis", JsonLoads(FirstBalancedSpan(exResponse)).val, "")

\* C29: a generated text that is itself the text of a JSON object, with or
\* without escapes in its strings, sent as it is or in the envelope, is
\* returned parsed as it is.
C29_ParseableTextWins ==
    (exPc = "done" /\ IsDict(JsonLoads(exContent))) =>
        exResult = Single("analysis", JsonLoads(exContent).val, "")

\* C9: for str() of a message whose content is the text of a JSON object,
\* wrapped as content='...' , the extraction returns the parsed content.
C9_EnvelopePayloadParsed ==
    ( /\ exPc = "done"
      /\ exResponse = StrOfMessage(exContent)
      /\ StartsWith(exResponse, EnvelopeMarker)
      /\ IsDict(JsonLoads(exContent)) ) =>
        exResult = Single("analysis", JsonLoads(exContent).val, "")

(***************************************************************************)
(* Properties of the endpoints.                                            *)
(***************************************************************************)
\* the request just served and the user it was served for
LastOp == ssLast.req.op
LastUser == ssLast.req.user

\* the resume id a user has stored in each application (NoId: none)
StoredId(u) == session_storage[u].resume_id
RootStoredId(u) == user_resume_storage[u].resume_id

\* the step served a similar-jobs or analyze-skills request naming a resume
\* id that is not the one stored for its user
ForeignResumeAsked ==
    \/ /\ ssLast'.req.op \in {"get_similar_jobs", "analyze_skills"}
       /\ StoredId(ssLast'.req.user) # ssLast'.req.resume_id
    \/ /\ ssLast'.req.op \in {"root_get_similar_jobs", "root_analyze_skills"}
       /\ RootStoredId(ssLast'.req.user) # ssLast'.req.resume_id

\* the user of the step had no resume in the application asked
NoResumeStored ==
    IF ssLast'.req.op \in {"get_similar_jobs", "analyze_skills"}
    THEN StoredId(ssLast'.req.user) = NoId
    ELSE RootStoredId(ssLast'.req.user) = NoId

\* C37: a similar-jobs or analyze-skills request whose resume id is not the
\* one stored for the authenticated user, or whose user has none, is
\* answered 403, or 404 and then only when no resume is stored, without the
\* index query or the analysis having run, and leaves the stored state of
\* both applications as it was.
C37_OwnResumeOnly ==
    [][ForeignResumeAsked =>
          /\ ssLast'.status \in {403, 404}
          /\ ssLast'.status = 404 => NoResumeStored
          /\ ~ssLast'.ran
          /\ session_storage' = session_storage
          /\ user_resumes' = user_resumes
          /\ user_resume_storage' = user_resume_storage]_vars

\* a user who has a resume asked for the similar jobs of the resume another
\* user has, and was refused
C37_Witness ==
    /\ LastOp = "get_similar_jobs"
    /\ ssLast.status = 403
    /\ StoredId(LastUser) # NoId
    /\ \E v \in Users \ {LastUser} : StoredId(v) = ssLast.req.resume_id

\* the resume history of a user
HistoryOf(u) == user_resumes[u].list

\* C38: under upload-resume, delete-resume, clear-session, update-profile
\* and search-jobs requests each user has at most one entry in
\* user_resumes, the session holds a resume id exactly when that entry is
\* the one with this id, and a search-jobs request of a user whose current
\* resume was deleted and who has not uploaded since is answered 400.
C38_OneActiveResume ==
    /\ \A u \in Users :
          /\ Len(HistoryOf(u)) <= 1
          /\ StoredId(u) # NoId =>
                Len(HistoryOf(u)) = 1 /\ HistoryOf(u)[1].resume_id = StoredId(u)
          /\ Len(HistoryOf(u)) = 1 => StoredId(u) = HistoryOf(u)[1].resume_id
    /\ (LastOp = "search_jobs" /\ LastUser \in ssDeleted) => ssLast.status = 400

\* a user deleted the current resume, updated the profile, which made a
\* session again, and searched, while another user has uploaded twice
C38_Witness ==
    /\ LastOp = "search_jobs"
    /\ LastUser \in ssDeleted
    /\ session_storage[LastUser].present
    /\ HistoryOf(LastUser) = <<>>
    /\ \E v \in Users \ {LastUser} :
          StoredId(v) = ResumeIdOf(v, "cvB") /\ "last_search" \in session_storage[v].keys

\* the dicts with the entries of every user but u removed
OnlySessionOf(u) == [v \in Users |-> IF v = u THEN session_storage[v] ELSE NoSession]
OnlyResumesOf(u) == [v \in Users |-> IF v = u THEN user_resumes[v] ELSE NoResumes]
OnlyRootResumeOf(u) ==
    [v \in Users |-> IF v = u THEN user_resume_storage[v] ELSE NoResume]

\* the step left the entries of every user but its own as they were
OthersUntouched ==
    \A v \in Users \ {ssLast'.req.user} :
        /\ session_storage'[v] = session_storage[v]
        /\ user_resumes'[v] = user_resumes[v]
        /\ user_resume_storage'[v] = user_resume_storage[v]

\* the response of the step, for the same request with nothing stored for
\* the other users
AnswerAlone(req) ==
    Handle(req, OnlySessionOf(req.user), OnlyResumesOf(req.user),
           OnlyRootResumeOf(req.user))

\* the step answered what it would have answered with nothing stored for
\* the other users
ReadsOwnDataOnly ==
    /\ ssLast'.status = AnswerAlone(ssLast'.req).status
    /\ ssLast'.body = AnswerAlone(ssLast'.req).body

\* C39: every request and every step of a background task, handled for a
\* user, leaves the entries of all other users in session_storage,
\* user_resumes and user_resume_storage as they were, and its response is
\* the one it would give with nothing stored for the other users.
C39_PerUserIsolation == [][OthersUntouched /\ ReadsOwnDataOnly]_vars

(***************************************************************************)
(* Properties of the rate limiters.                                        *)
(***************************************************************************)
\* the readings of the clock so far
TimesSoFar == {k * TickSeconds : k \in 0..(rlNow \div TickSeconds)}

\* the number of calls of an identifier allowed with a time in (t - window, t]
AllowedIn(id, t) ==
    Cardinality({i \in DOMAIN rlAllowed[id] :
                    rlAllowed[id][i] > t - rlWindow /\ rlAllowed[id][i] <= t})

\* the allowed calls of an identifier before the last one
AllowedBeforeLast(id) ==
    IF rlLast.allowed THEN SubSeq(rlAllowed[id], 1, Len(rlAllowed[id]) - 1)
    ELSE rlAllowed[id]

\* a recorded list is the end of the list of the allowed calls
IsSuffix(s, t) == Len(s) <= Len(t) /\ s = SubSeq(t, Len(t) - Len(s) + 1, Len(t))

\* the last call was allowed exactly when fewer than the limit of the
\* earlier allowed calls of its identifier lay in its window
DecidedOnAllowedCalls ==
    rlLast.id # "" =>
        (rlLast.allowed <=>
            Cardinality({i \in DOMAIN AllowedBeforeLast(rlLast.id) :
                            AllowedBeforeLast(rlLast.id)[i] > rlLast.time - rlWindow})
                < rlMax)

\* the step left what is kept for the other identifiers as it was
OtherIdentifiersUntouched ==
    \A id \in DOMAIN rlRequests :
        id # rlLast'.id => rlRequests'[id] = rlRequests[id] /\ rlAllowed'[id] = rlAllowed[id]

\* C40: for every identifier and every time t so far at most the limit of
\* its calls with a time in (t - window, t] were allowed; only allowed
\* calls are recorded, and a call is rejected exactly when the limit of
\* allowed calls lies in its window, so a rejected call changes no later
\* decision; a call changes nothing kept for another identifier.
C40_SlidingWindowLimit ==
    /\ [](\A id \in DOMAIN rlAllowed :
             /\ \A t \in TimesSoFar : AllowedIn(id, t) <= rlMax
             /\ IsSuffix(rlRequests[id], rlAllowed[id]))
    /\ []DecidedOnAllowedCalls
    /\ [][OtherIdentifiersUntouched]_vars

\* with the limit 2, a call was rejected at the time the window ends on
\* its identifier's first allowed call: that one had left the window, a
\* third had been allowed, and the two in the window were the limit; the
\* call of another identifier was allowed at that time
C40_Witness ==
    /\ rlMax = 2
    /\ ~rlLast.allowed
    /\ rlLast.time = rlWindow
    /\ rlAllowed[rlLast.id] = <<0, TickSeconds, rlWindow>>
    /\ rlRequests[rlLast.id] = <<TickSeconds, rlWindow>>
    /\ \E v \in DOMAIN rlAllowed \ {rlLast.id} : rlAllowed[v] = <<rlWindow>>

====
